---- MODULE Spec2Model ----
\* Model of the request-lifecycle engine of custom-cloudformation-resources:
\* CustomResource.handleRequest / processRequest (src/src/custom-resource.ts)
\* the status callback send (src/src/cfn-response.ts), and the certificate
\* resource ACMCloudfrontCertificate (src/src/acm-certificate/index.ts).
EXTENDS Integers, Sequences, FiniteSets, TLC

\* ---------------------------------------------------------------- bounds

\* Number of handleRequest calls (fresh events plus re-deliveries) on the instance.
MaxRequests == 3

\* Number of ticks of the validation poll that find resource records missing.
MaxRetries == 2

\* Number of ticks of the validation poll at which describeCertificate is rejected.
MaxRejections == 1

\* ---------------------------------------------------------------- state

VARIABLES
    delivered,      \* the RequestIds of the events the orchestrator has sent
    requestQueue,   \* CustomResource.requestQueue: the queued processThisRequest closures (by call number)
    request,        \* request[i]: the event given to the i-th handleRequest call
    origin,         \* origin[i]: for a re-delivered event, the rule that fired and the
                    \* continuation attributes the scheduling invocation's handler returned
    future,         \* future[i]: the promise handleRequest returned to its i-th caller
    pc,             \* pc[i]: what the i-th processThisRequest is awaiting
    response,       \* response[i]: processRequest's local `response`
    status,         \* status[i]: processRequest's local `status`
    statusReason,   \* statusReason[i]: processRequest's local `statusReason`
    now,            \* now[i]: processRequest's local `now` (0: not read yet)
    error,          \* error[i]: the error processRequest threw, if any
    calls,          \* calls[i]: the external calls invocation i issued, in order
                    \* (request, origin, response, status, statusReason, error and calls
                    \* are what the closure of invocation i holds; they go when it is done)
    rules,          \* the CloudWatch Events rules, by name
    acm             \* the handler operation of ACMCloudfrontCertificate that invocation 1
                    \* runs: its position, its arguments, its calls and what the
                    \* certificate service holds

vars == <<delivered, requestQueue, request, origin, future, pc, response, status,
          statusReason, now, error, calls, rules, acm>>

\* ---------------------------------------------------------------- values

\* JavaScript values a handler may hand back as continuation attributes.
\* fields: the own properties of an object, as <<key, type of value, value>>.
JSUndefined == [type |-> "undefined", str |-> "", fields |-> {}]
JSNull == [type |-> "null", str |-> "", fields |-> {}]
JSString(s) == [type |-> "string", str |-> s, fields |-> {}]
JSObject(fs) == [type |-> "object", str |-> "", fields |-> fs]

\* typeof v (typeof null is 'object').
typeof(v) == IF v.type = "null" THEN "object" ELSE v.type

\* The truthiness `if (v)` tests.
truthy(v) ==
    \/ v.type = "object"
    \/ v.type = "string" /\ v.str # ""

\* JSON.stringify of a value: own properties holding undefined are left out.
JSONValue(v) ==
    IF v.type = "object"
    THEN JSObject({f \in v.fields : f[2] # "undefined"})
    ELSE v

\* JSON.stringify of an event object; the text is represented by the event it
\* denotes. A property holding undefined is left out of the text.
JSONStringify(event) ==
    [event EXCEPT
        !.hasContinuationAttributes =
            event.hasContinuationAttributes /\ event.ContinuationAttributes.type # "undefined",
        !.ContinuationAttributes = JSONValue(event.ContinuationAttributes)]

\* JSON.parse of such a text (the Lambda runtime hands the parsed target input
\* to handleRequest).
JSONParse(text) == text

\* Values handlers return as continuation attributes.
CAObject == JSObject({<<"step", "number", "1">>})
CAObjectWithUndefined == JSObject({<<"step", "number", "1">>, <<"token", "undefined", "">>})
CAString == JSString("step1")
ContinuationAttributeValues == {CAObject, CAObjectWithUndefined, JSNull, CAString}

\* ---------------------------------------------------------------- requests

StackName == <<"s", "t", "k">>
StackId == <<"arn", "aws", "cloudformation", "us-west-2", "123456789012",
             <<"stack", StackName, "guid">>>>
\* StackId as the one string it is (a segment of the default physical resource id).
StackIdText == "arn:aws:cloudformation:us-west-2:123456789012:stack/stk/guid"
LogicalShort == <<"C", "e", "r", "t">>
LogicalLong == [k \in 1..40 |-> "L"]

Event(type, id, logical, physical) ==
    [RequestType |-> type, RequestId |-> id, StackId |-> StackId,
     LogicalResourceId |-> logical, PhysicalResourceId |-> physical,
     hasContinuationAttributes |-> FALSE, ContinuationAttributes |-> JSUndefined]

NoEvent == Event("", "", <<>>, <<>>)

\* Where an event comes from: the orchestrator, or a rule that fired.
Fresh == [rule |-> <<>>, returned |-> JSUndefined]
Redelivered(name, attributes) == [rule |-> name, returned |-> attributes]

\* The events the orchestrator sends (PhysicalResourceId is empty on Create).
FreshRequests ==
    { Event("Create", "r1", LogicalShort, <<>>),
      Event("Update", "r2", LogicalLong, <<"p1">>),
      Event("Delete", "r3", LogicalShort, <<"p1">>) }

\* ---------------------------------------------------------------- helpers

Max(a, b) == IF a >= b THEN a ELSE b
Min(a, b) == IF a <= b THEN a ELSE b

\* s.slice(0, n)
Slice(s, n) == SubSeq(s, 1, Min(n, Len(s)))

\* ---------------------------------------------------------------- rule names

\* Length the rule-name stem is cut to.
RuleNameStemLength == 55

\* crc32(RequestId).toString(16), by table for the request ids of the model.
crc32hex(id) ==
    CASE id = "r1" -> <<"8", "3", "d", "c">>
      [] id = "r2" -> <<"1", "a", "d", "5">>
      [] OTHER -> <<"6", "d", "d", "2">>

ContinuationPrefix == <<"C", "o", "n", "t", "i", "n", "u", "a", "t", "i", "o", "n", "-">>

\* CustomResource.getContinuationRuleName
getContinuationRuleName(req) ==
    LET stackName == req.StackId[6][2]
        safeRequestId == crc32hex(req.RequestId)
        continuationRuleName ==
            ContinuationPrefix \o stackName \o <<"-">> \o req.LogicalResourceId
    IN Slice(continuationRuleName, RuleNameStemLength) \o <<"-">> \o safeRequestId

\* ---------------------------------------------------------------- time

\* Instants are seconds; day 0 is the day of the sentinel expression.
getMinutes(t) == (t \div 60) % 60
getHours(t) == (t \div 3600) % 24
getDay(t) == t \div 86400

\* cron(30 7 19 6 ? 2018): the sentinel of the disabled rule. `day` stands for
\* the day-of-month, month and year fields together.
PastExpression == [minute |-> 30, hour |-> 7, day |-> 0]
NoExpression == [minute |-> 0, hour |-> 0, day |-> 0]

\* The cron expression of the enabling putRule.
cronExpression(t, continuationAfter) ==
    LET when == t + continuationAfter
    IN [minute |-> Max(getMinutes(t) + 1, getMinutes(when)),
        hour |-> getHours(when),
        day |-> getDay(when)]

At(day, hour, minute, second) == day * 86400 + hour * 3600 + minute * 60 + second

\* ---------------------------------------------------------------- type guards

\* What a handler operation settles with: a Response, a ContinuationRequired,
\* or a thrown Error with its message. NoResponse: the local `response` unset.
NoResponse ==
    [kind |-> "undefined", physicalResourceId |-> <<>>, continuationAfter |-> 0,
     continuationAttributes |-> JSUndefined, message |-> "", attributesLength |-> 0]
Definite(physical) ==
    [kind |-> "response", physicalResourceId |-> physical, continuationAfter |-> 0,
     continuationAttributes |-> JSUndefined, message |-> "", attributesLength |-> 0]
ContinuationRequired(after, attributes) ==
    [kind |-> "continuation", physicalResourceId |-> <<>>, continuationAfter |-> after,
     continuationAttributes |-> attributes, message |-> "", attributesLength |-> 0]
Thrown(msg) ==
    [kind |-> "throw", physicalResourceId |-> <<>>, continuationAfter |-> 0,
     continuationAttributes |-> JSUndefined, message |-> msg, attributesLength |-> 0]

\* A Response with attributes: they are kept by the length of their JSON text
\* (attributesLength 0: the Response has no attributes).
DefiniteWith(physical, length) == [Definite(physical) EXCEPT !.attributesLength = length]

\* Mutant of isContinuationRequired: a continuation is taken for a definite result.
isContinuationRequired_Never(resp) == FALSE

\* typeof response === 'object' && 'continuationAfter' in response
isContinuationRequired(resp) == resp.kind = "continuation"

\* 'ContinuationAttributes' in request && typeof request.ContinuationAttributes === 'object'
isContinuedCustomResourceRequest(req) ==
    /\ req.hasContinuationAttributes
    /\ typeof(req.ContinuationAttributes) = "object"

\* processRequest's local continuationAttributes: what the handler operation is given.
continuationAttributesOf(req) ==
    IF isContinuedCustomResourceRequest(req) THEN req.ContinuationAttributes ELSE JSUndefined

\* processRequest's default physical resource id.
physicalResourceIdOf(req) ==
    IF req.PhysicalResourceId # <<>>
    THEN req.PhysicalResourceId
    ELSE <<StackIdText, req.LogicalResourceId, req.RequestId>>

\* `if (continuationAttributes)`: whether the rule is torn down after the report.
needsCleanup(req) == truthy(continuationAttributesOf(req))

\* Mutant of cleanupRuleName: the stem is not cut to its length.
cleanupRuleName_Unsliced(req) ==
    ContinuationPrefix \o req.StackId[6][2] \o <<"-">> \o req.LogicalResourceId
        \o <<"-">> \o crc32hex(req.RequestId)

\* The rule name the teardown uses.
cleanupRuleName(req) == getContinuationRuleName(req)

\* Mutant of targetInput: the event is registered without the attributes.
targetInput_Plain(req, resp) == JSONStringify(req)

\* The input of the re-invocation target: {...request, ContinuationAttributes}.
targetInput(req, resp) ==
    JSONStringify([req EXCEPT !.hasContinuationAttributes = TRUE,
                              !.ContinuationAttributes = resp.continuationAttributes])

\* ---------------------------------------------------------------- status callback

NoBody ==
    [Status |-> "", Reason |-> "", PhysicalResourceId |-> <<>>, RequestId |-> "",
     DataLength |-> 0]

\* `responseData: unknown = {}`, by the length of its JSON text: that of the
\* attributes, that of '{}' without them.
responseData(attributesLength) == IF attributesLength = 0 THEN 2 ELSE attributesLength

\* Mutant of responseBody: the reason is left out.
responseBody_NoReason(req, responseStatus, responseReason, physicalResourceId, data) ==
    [Status |-> responseStatus,
     Reason |-> "",
     PhysicalResourceId |-> IF physicalResourceId # <<>> THEN physicalResourceId
                            ELSE req.PhysicalResourceId,
     RequestId |-> req.RequestId,
     DataLength |-> data]

\* The response body send builds.
responseBody(req, responseStatus, responseReason, physicalResourceId, data) ==
    [Status |-> responseStatus,
     Reason |-> IF responseReason # "" THEN responseReason
                ELSE IF responseStatus = "FAILED" THEN "Unknown error" ELSE "",
     PhysicalResourceId |-> IF physicalResourceId # <<>> THEN physicalResourceId
                            ELSE req.PhysicalResourceId,
     RequestId |-> req.RequestId,
     DataLength |-> data]

\* What the PUT ends in: a response with a status code (0: none), or a transport error.
HttpResults ==
    { [kind |-> "response", statusCode |-> 200],
      [kind |-> "response", statusCode |-> 0],
      [kind |-> "response", statusCode |-> 400],
      [kind |-> "error", statusCode |-> 0] }

NoError == [kind |-> "none", message |-> "", statusCode |-> 0]
SchedulerError(op) == [kind |-> "scheduler", message |-> op, statusCode |-> 0]

\* Mutant of sendError: a response without status code counts as delivered.
sendError_MissingCodeOk(res) ==
    IF res.kind = "error"
    THEN [kind |-> "delivery", message |-> "transport error", statusCode |-> 0]
    ELSE IF res.statusCode >= 400
         THEN [kind |-> "delivery", message |-> "Unexpected status code",
               statusCode |-> res.statusCode]
         ELSE NoError

\* The error send's promise rejects with (NoError: it resolves).
sendError(res) ==
    IF res.kind = "error"
    THEN [kind |-> "delivery", message |-> "transport error", statusCode |-> 0]
    ELSE IF res.statusCode = 0 \/ res.statusCode >= 400
         THEN [kind |-> "delivery", message |-> "Unexpected status code",
               statusCode |-> res.statusCode]
         ELSE NoError

\* ---------------------------------------------------------------- external calls

CW_EVENTS_TARGET_ID == "CustomResource"

\* How an external call ended: not yet, well, or with an error; for the PUT of
\* the status callback, the HTTP result.
Awaited == [kind |-> "pending", statusCode |-> 0]
Succeeded == [kind |-> "ok", statusCode |-> 0]
Failed == [kind |-> "failed", statusCode |-> 0]

Call(op, name, state, expression, body) ==
    [op |-> op, Name |-> name, State |-> state, ScheduleExpression |-> expression,
     body |-> body, contentLength |-> 0, warned |-> FALSE, result |-> Awaited]

putRuleCall(name, state, expression) == Call("putRule", name, state, expression, NoBody)
putTargetsCall(name) == Call("putTargets", name, "", NoExpression, NoBody)
removeTargetsCall(name) == Call("removeTargets", name, "", NoExpression, NoBody)
deleteRuleCall(name) == Call("deleteRule", name, "", NoExpression, NoBody)

\* The length of the serialised response body: the fields other than Data are
\* taken to serialise to EnvelopeLength characters for every request.
BODY_LIMIT == 4096
EnvelopeLength == 300
bodyLength(body) == EnvelopeLength + body.DataLength

\* Mutant of sendCall: a body over the limit is sent without its data.
sendCall_DropsData(body) ==
    LET sent == IF bodyLength(body) >= BODY_LIMIT THEN [body EXCEPT !.DataLength = 2] ELSE body
    IN [Call("send", <<>>, "", NoExpression, sent) EXCEPT
            !.contentLength = bodyLength(sent),
            !.warned = bodyLength(body) >= BODY_LIMIT]

\* send up to its await: the body is serialised, a body of BODY_LIMIT characters
\* or more is warned about, and the PUT is issued with the body and its length.
sendCall(body) ==
    [Call("send", <<>>, "", NoExpression, body) EXCEPT
        !.contentLength = bodyLength(body),
        !.warned = bodyLength(body) >= BODY_LIMIT]

\* The call processRequest issues once the handler operation has settled:
\* the preparing putRule for a continuation, the status callback otherwise.
callAfterHandler(req, resp, stat, reason) ==
    IF isContinuationRequired(resp)
    THEN putRuleCall(getContinuationRuleName(req), "DISABLED", PastExpression)
    ELSE sendCall(responseBody(req, stat, reason,
                               IF resp.physicalResourceId # <<>>
                               THEN resp.physicalResourceId
                               ELSE physicalResourceIdOf(req),
                               responseData(resp.attributesLength)))

\* Mutant of callAfterPutRulePrep: the rule is enabled before the target is put.
callAfterPutRulePrep_Enable(req) ==
    putRuleCall(getContinuationRuleName(req), "ENABLED", cronExpression(At(1, 10, 30, 20), 90))

\* The scheduler call that follows a successful one, for a continuation.
callAfterPutRulePrep(req) == putTargetsCall(getContinuationRuleName(req))
callAfterPutTargets(req, resp, t) ==
    putRuleCall(getContinuationRuleName(req), "ENABLED",
                cronExpression(t, resp.continuationAfter))

\* The handler operation processRequest dispatches to.
handlerOperation(req) ==
    CASE req.RequestType = "Create" -> "createResource"
      [] req.RequestType = "Delete" -> "deleteResource"
      [] req.RequestType = "Update" -> "updateResource"

HandlerOperations == {"createResource", "deleteResource", "updateResource"}

\* A rule of the scheduler: its state, its expression, its targets and whether
\* the (one-shot) expression has fired since it was last put.
Rule(state, expression, targets, fired) ==
    [State |-> state, ScheduleExpression |-> expression, Targets |-> targets,
     fired |-> fired]

\* putRule: create or update, the targets of an existing rule stay.
putRule(rs, name, state, expression) ==
    [n \in DOMAIN rs \cup {name} |->
        IF n = name
        THEN Rule(state, expression,
                  IF name \in DOMAIN rs THEN rs[name].Targets ELSE {}, FALSE)
        ELSE rs[n]]

\* putTargets: the target with this Id is replaced.
putTargets(rs, name, target) ==
    [rs EXCEPT ![name].Targets = {t \in @ : t.Id # target.Id} \cup {target}]

removeTargets(rs, name, id) ==
    [rs EXCEPT ![name].Targets = {t \in @ : t.Id # id}]

deleteRule(rs, name) == [n \in DOMAIN rs \ {name} |-> rs[n]]

\* ---------------------------------------------------------------- property values

\* The values of resource properties (src/src/acm-certificate/index.ts):
\* strings, objects and arrays, and undefined for a property that is not there.
\* entries: the own properties, as <<key, value>>; the keys of an array are
\* its indices "0", "1", ...
PUndefined == [type |-> "undefined", str |-> "", entries |-> {}]
PString(s) == [type |-> "string", str |-> s, entries |-> {}]
PObject(es) == [type |-> "object", str |-> "", entries |-> es]
IndexKeys == <<"0", "1", "2", "3", "4">>
PArray(items) ==
    [type |-> "array", str |-> "",
     entries |-> {<<IndexKeys[k], items[k]>> : k \in DOMAIN items}]

\* typeof v, for a property value ('object' for an array).
typeofProperty(v) == IF v.type = "array" THEN "object" ELSE v.type

\* Object.keys(v)
ObjectKeys(v) == {e[1] : e \in v.entries}

\* v[key] (undefined when there is no such property)
Get(v, key) ==
    IF key \in ObjectKeys(v)
    THEN (CHOOSE e \in v.entries : e[1] = key)[2]
    ELSE PUndefined

\* The elements of an array, in order.
Items(v) == [k \in 1..Cardinality(v.entries) |-> Get(v, IndexKeys[k])]

\* 'ValidationDomain' in option
isEmailDomainValidationOption(option) == "ValidationDomain" \in ObjectKeys(option)

\* 'HostedZoneId' in option
isDNSDomainValidationOption(option) == "HostedZoneId" \in ObjectKeys(option)

\* A string with '/' in it is the sequence of its segments between the
\* slashes: `${a}/${b}` is a \o b, and the text after the last slash is the
\* last segment.
Arn(id) == <<"arn:aws:acm:us-east-1:123456789012:certificate", id>>
NoArn == <<>>

\* certificateArn.substring(certificateArn.lastIndexOf('/') + 1)
getCertificateId(certificateArn) == certificateArn[Len(certificateArn)]

\* physicalResourceId.endsWith(`/${certificateId}`)
endsWithId(physicalResourceId, certificateId) ==
    /\ Len(physicalResourceId) >= 2
    /\ physicalResourceId[Len(physicalResourceId)] = certificateId

\* isChanged(to, from) of findChangedAttributes: the switch on typeof from.
\* Arrays have typeof 'object', so they take the 'object' case (the entries of
\* `from` are compared with the properties of `to` under the same keys) and
\* the Array.isArray test of the default case is never reached.
RECURSIVE isChanged(_, _)
isChanged(to, from) ==
    CASE typeofProperty(from) = "undefined" -> typeofProperty(to) # "undefined"
      [] typeofProperty(from) = "object" ->
            \/ typeofProperty(to) # "object"
            \/ ~(\A e \in from.entries : ~isChanged(Get(to, e[1]), e[2]))
      [] OTHER -> to.type # from.type \/ to.str # from.str

\* Mutant of findChangedAttributes: nothing is ever found changed.
findChangedAttributes_None(params, oldParams) == {}

\* Object.keys(params).filter(key => isChanged(params[key], oldParams[key])),
\* as the set of its elements.
findChangedAttributes(params, oldParams) ==
    {key \in ObjectKeys(params) : isChanged(Get(params, key), Get(oldParams, key))}

\* Mutant of updatePath: changed tags are reconciled whatever else has changed.
updatePath_TagsFirst(changedAttributes) ==
    IF changedAttributes = {"CertificateTransparencyLoggingPreference"}
    THEN "updateCertificateOptions"
    ELSE IF "Tags" \in changedAttributes THEN "updateTags" ELSE "replace"

\* The path updateResource takes for a list of changed attributes.
updatePath(changedAttributes) ==
    IF changedAttributes = {"CertificateTransparencyLoggingPreference"}
    THEN "updateCertificateOptions"
    ELSE IF changedAttributes = {"Tags"} THEN "updateTags" ELSE "replace"

\* Mutant of hasTag: tags are compared by key only.
hasTag_KeyOnly(tagList, tag) ==
    \E k \in DOMAIN tagList : Get(tagList[k], "Key") = Get(tag, "Key")

\* existingTags.find(({Key: k, Value: v}) => k === tag.Key && v === tag.Value)
hasTag(tagList, tag) ==
    \E k \in DOMAIN tagList :
        /\ Get(tagList[k], "Key") = Get(tag, "Key")
        /\ Get(tagList[k], "Value") = Get(tag, "Value")

\* tagsToAdd: the tags of the request that are not among the existing ones.
tagsToAdd(tags, existingTags) ==
    SelectSeq(tags, LAMBDA tag : ~hasTag(existingTags, tag))

\* tagsToRemove: the existing tags that are not among those of the request.
tagsToRemove(tags, existingTags) ==
    SelectSeq(existingTags, LAMBDA tag : ~hasTag(tags, tag))

\* `Tags: tags = []`, `DomainValidationOptions: domainValidationOptions = []`
ItemsOrEmpty(v) == IF v.type = "array" THEN Items(v) ELSE <<>>

\* The DNS and the email validation options of the parameters.
dnsDomainValidationOptions(params) ==
    SelectSeq(ItemsOrEmpty(Get(params, "DomainValidationOptions")),
              isDNSDomainValidationOption)
emailDomainValidationOptions(params) ==
    SelectSeq(ItemsOrEmpty(Get(params, "DomainValidationOptions")),
              isEmailDomainValidationOption)

InvalidOptionsMessage == "Invalid DNS domain validation options"

\* Mutant of invalidDNSOptions: the domain of the one option is not compared.
invalidDNSOptions_CountOnly(params) == Len(dnsDomainValidationOptions(params)) > 1

\* createCertificate's test of the DNS validation options: more than one, or
\* one for another domain than the certificate's.
invalidDNSOptions(params) ==
    LET dns == dnsDomainValidationOptions(params)
    IN \/ Len(dns) > 1
       \/ /\ Len(dns) = 1
          /\ Get(dns[1], "DomainName") # Get(params, "DomainName")

\* The new physical resource id of a replacement (updateResource): the prefix
\* is physicalResourceId.substring(lastSlashIndex + 1) when the old id ends
\* in the old certificate's id, the old id otherwise.
replacementPhysicalResourceId(physicalResourceId, certificateArn, newCertificateId) ==
    LET physicalResourceIdPrefix ==
            IF endsWithId(physicalResourceId, getCertificateId(certificateArn))
            THEN <<physicalResourceId[Len(physicalResourceId)]>>
            ELSE physicalResourceId
    IN physicalResourceIdPrefix \o <<newCertificateId>>

\* ---------------------------------------------------------------- certificate service

\* A certificate of the listing (ACM.CertificateSummary).
CertificateSummary(id, domain) == [CertificateArn |-> Arn(id), DomainName |-> domain]

\* Mutant of findCertificate: without a match the first certificate is taken.
findCertificate_First(certificates, physicalResourceId, domainName) ==
    LET byId == {k \in DOMAIN certificates :
                    endsWithId(physicalResourceId,
                               getCertificateId(certificates[k].CertificateArn))}
        first(ks) == CHOOSE k \in ks : \A other \in ks : k <= other
    IN IF byId # {} THEN certificates[first(byId)].CertificateArn
       ELSE IF Len(certificates) > 0 THEN certificates[1].CertificateArn
       ELSE NoArn

\* Mutant of findCertificate: a certificate for the domain is preferred to the
\* one with the id of the resource.
findCertificate_DomainFirst(certificates, physicalResourceId, domainName) ==
    LET byId == {k \in DOMAIN certificates :
                    endsWithId(physicalResourceId,
                               getCertificateId(certificates[k].CertificateArn))}
        byDomain == {k \in DOMAIN certificates :
                        PString(certificates[k].DomainName) = domainName}
        first(ks) == CHOOSE k \in ks : \A other \in ks : k <= other
    IN IF byDomain # {} THEN certificates[first(byDomain)].CertificateArn
       ELSE IF byId # {} THEN certificates[first(byId)].CertificateArn
       ELSE NoArn

\* certificates.find(by id in the resource id), else find(by domain name);
\* NoArn: certificate?.CertificateArn is undefined.
findCertificate(certificates, physicalResourceId, domainName) ==
    LET byId == {k \in DOMAIN certificates :
                    endsWithId(physicalResourceId,
                               getCertificateId(certificates[k].CertificateArn))}
        byDomain == {k \in DOMAIN certificates :
                        PString(certificates[k].DomainName) = domainName}
        first(ks) == CHOOSE k \in ks : \A other \in ks : k <= other
    IN IF byId # {} THEN certificates[first(byId)].CertificateArn
       ELSE IF byDomain # {} THEN certificates[first(byDomain)].CertificateArn
       ELSE NoArn

\* A resource record of a validation option (NoRecord: not yet attached).
NoRecord == [Name |-> "", Type |-> "", Value |-> ""]
ResourceRecord(k) ==
    [Name |-> <<"_n1.a.example", "_n2.a.example", "_n3.a.example", "_n4.a.example">>[k],
     Type |-> "CNAME",
     Value |-> <<"v1.acm", "v2.acm", "v3.acm", "v4.acm">>[k]]

\* A validation option of the described certificate (ACM.DomainValidation).
DomainValidation(method, record) == [ValidationMethod |-> method, ResourceRecord |-> record]

\* What describeCertificate returns: no Certificate, or its validation options.
NoCertificate == [present |-> FALSE, DomainValidationOptions |-> <<>>]
Certificate(options) == [present |-> TRUE, DomainValidationOptions |-> options]

\* (certificate.DomainValidationOptions ?? []).filter(ValidationMethod === 'DNS')
describedDNSOptions(certificate) ==
    SelectSeq(certificate.DomainValidationOptions,
              LAMBDA option : option.ValidationMethod = "DNS")

\* dnsDomainValidationOptions.map(option => option.ResourceRecord).filter(isDefined)
describedResourceRecords(certificate) ==
    LET withRecord == SelectSeq(describedDNSOptions(certificate),
                                LAMBDA option : option.ResourceRecord # NoRecord)
    IN [k \in DOMAIN withRecord |-> withRecord[k].ResourceRecord]

UPSERT_TTL == 300

\* Mutant of upsert: the record set is created, not upserted.
upsert_Create(resourceRecord) ==
    [Action |-> "CREATE", Name |-> resourceRecord.Name, Type |-> resourceRecord.Type,
     TTL |-> UPSERT_TTL, Value |-> resourceRecord.Value]

\* The change createCertificate makes for a resource record.
upsert(resourceRecord) ==
    [Action |-> "UPSERT", Name |-> resourceRecord.Name, Type |-> resourceRecord.Type,
     TTL |-> UPSERT_TTL, Value |-> resourceRecord.Value]

\* The calls of the handler to ACM and Route 53, with their parameters.
ACMCall(op, arn, options, tagList, changes, token) ==
    [op |-> op, CertificateArn |-> arn, Options |-> options, Tags |-> tagList,
     Changes |-> changes, NextToken |-> token]

listCertificatesCall(token) == ACMCall("listCertificates", NoArn, PUndefined, <<>>, <<>>, token)
deleteCertificateCall(arn) == ACMCall("deleteCertificate", arn, PUndefined, <<>>, <<>>, 0)
updateCertificateOptionsCall(arn, ctLoggingPreference) ==
    ACMCall("updateCertificateOptions", arn, ctLoggingPreference, <<>>, <<>>, 0)
listTagsForCertificateCall(arn) ==
    ACMCall("listTagsForCertificate", arn, PUndefined, <<>>, <<>>, 0)
addTagsToCertificateCall(arn, tagList) ==
    ACMCall("addTagsToCertificate", arn, PUndefined, tagList, <<>>, 0)
removeTagsFromCertificateCall(arn, tagList) ==
    ACMCall("removeTagsFromCertificate", arn, PUndefined, tagList, <<>>, 0)
describeCertificateCall(arn) == ACMCall("describeCertificate", arn, PUndefined, <<>>, <<>>, 0)
waitForCall(arn) == ACMCall("waitFor", arn, PUndefined, <<>>, <<>>, 0)

\* requestCertificate: the email validation options only (undefined when there
\* are none).
requestCertificateCall(params) ==
    LET email == emailDomainValidationOptions(params)
    IN ACMCall("requestCertificate", NoArn,
               IF Len(email) = 0 THEN PUndefined ELSE PArray(email), <<>>, <<>>, 0)

\* changeResourceRecordSets: one change per resource record, in the hosted
\* zone of the DNS validation option.
changeResourceRecordSetsCall(hostedZoneId, resourceRecords) ==
    ACMCall("changeResourceRecordSets", NoArn, hostedZoneId, <<>>,
            [k \in DOMAIN resourceRecords |-> upsert(resourceRecords[k])], 0)

\* The state of the handler operation of ACMCloudfrontCertificate.
ACMIdle ==
    [pc |-> "idle", operation |-> "", physicalResourceId |-> <<>>,
     params |-> PUndefined, oldParams |-> PUndefined, calls |-> <<>>,
     pages |-> <<>>, known |-> <<>>, certificateArn |-> NoArn, newArn |-> NoArn,
     certificate |-> NoCertificate, existingTags |-> <<>>, retries |-> 0,
     unhandledRejections |-> 0, outcome |-> NoResponse]

\* ---------------------------------------------------------------- futures

Pending == [state |-> "pending", status |-> "", error |-> NoError]
Resolved(stat) == [state |-> "resolved", status |-> stat, error |-> NoError]
Rejected(err) == [state |-> "rejected", status |-> "", error |-> err]

\* ---------------------------------------------------------------- initial state

Init ==
    /\ delivered = {}
    /\ requestQueue = <<>>
    /\ request = <<>>
    /\ origin = <<>>
    /\ future = <<>>
    /\ pc = <<>>
    /\ response = <<>>
    /\ status = <<>>
    /\ statusReason = <<>>
    /\ now = <<>>
    /\ error = <<>>
    /\ calls = <<>>
    /\ rules = [n \in {} |-> Rule("", NoExpression, {}, FALSE)]
    /\ acm = ACMIdle

\* ---------------------------------------------------------------- handleRequest

\* Mutant of pushStartsExecution: every pushed entry is started at once.
pushStartsExecution_Always(length) == length >= 1

\* `this.requestQueue.push(processThisRequest) === 1`: the pushed entry is started.
pushStartsExecution(length) == length = 1

\* Mutant of processNextRequest: the newest entry is taken, not the oldest.
processNextRequest_Newest(queue) == IF Len(queue) > 0 THEN queue[Len(queue)] ELSE 0

\* Mutant of processNextRequest: nothing is started after a settlement.
processNextRequest_None(queue) == 0

\* `this.requestQueue.length > 0 ? this.requestQueue[0] : undefined` (0: undefined)
processNextRequest(queue) == IF Len(queue) > 0 THEN queue[1] ELSE 0

\* What processThisRequest awaits once processRequest has issued `call`.
awaiting(call) ==
    CASE call.op = "putRule" /\ call.State = "DISABLED" -> "putRulePrep"
      [] call.op = "putRule" /\ call.State # "DISABLED" -> "putRuleSchedule"
      [] call.op = "send" -> "sendResponse"
      [] OTHER -> call.op

InProgress ==
    HandlerOperations \cup
    {"putRulePrep", "putTargets", "putRuleSchedule", "sendResponse", "removeTargets",
     "deleteRule"}

Last(s) == s[Len(s)]

\* handleRequest(request): the promise is created, processThisRequest is pushed
\* and, when it is the only entry, started (processRequest runs up to its first
\* await, the call of the handler operation).
handleRequest(req, from) ==
    /\ Len(request) < MaxRequests
    /\ LET i == Len(request) + 1
           queue == Append(requestQueue, i)
       IN /\ requestQueue' = queue
          /\ pc' = Append(pc, IF pushStartsExecution(Len(queue))
                              THEN handlerOperation(req) ELSE "queued")
    /\ request' = Append(request, req)
    /\ origin' = Append(origin, from)
    /\ future' = Append(future, Pending)
    /\ response' = Append(response, NoResponse)
    /\ status' = Append(status, "FAILED")
    /\ statusReason' = Append(statusReason, "")
    /\ now' = Append(now, 0)
    /\ error' = Append(error, NoError)
    /\ calls' = Append(calls, <<>>)

\* The orchestrator delivers a fresh event (each RequestId once).
Submit ==
    \E req \in FreshRequests :
        /\ req.RequestId \notin delivered
        /\ delivered' = delivered \cup {req.RequestId}
        /\ handleRequest(req, Fresh)
        /\ UNCHANGED rules

\* An enabled rule fires once: its target is invoked with the registered input.
TargetInvoked ==
    \E name \in DOMAIN rules :
        /\ rules[name].State = "ENABLED"
        /\ ~rules[name].fired
        /\ \E t \in rules[name].Targets :
              handleRequest(JSONParse(t.Input), Redelivered(name, t.returned))
        /\ rules' = [rules EXCEPT ![name].fired = TRUE]
        /\ UNCHANGED delivered

\* ---------------------------------------------------------------- processRequest

\* The awaited call of invocation i ended with `result`.
settled(i, result) == [calls[i] EXCEPT ![Len(calls[i])].result = result]

\* processRequest goes on to issue `call` and awaits it.
issue(i, log, call) ==
    /\ calls' = [calls EXCEPT ![i] = Append(log, call)]
    /\ pc' = [pc EXCEPT ![i] = awaiting(call)]

\* processRequest throws `err`.
throw(i, log, err) ==
    /\ calls' = [calls EXCEPT ![i] = log]
    /\ pc' = [pc EXCEPT ![i] = "thrown"]
    /\ error' = [error EXCEPT ![i] = err]

\* processRequest returns { status }.
return(i, log) ==
    /\ calls' = [calls EXCEPT ![i] = log]
    /\ pc' = [pc EXCEPT ![i] = "returned"]

\* The handler operation settles: with a throw the catch block keeps status
\* FAILED and takes the message as reason; then the first external call is issued.
handlerSettles(i, outcome) ==
    /\ pc[i] \in HandlerOperations
    /\ LET threw == outcome.kind = "throw"
           resp == IF threw THEN response[i] ELSE outcome
           stat == IF threw THEN status[i] ELSE "SUCCESS"
           reason == IF threw THEN outcome.message ELSE statusReason[i]
       IN /\ response' = [response EXCEPT ![i] = resp]
          /\ status' = [status EXCEPT ![i] = stat]
          /\ statusReason' = [statusReason EXCEPT ![i] = reason]
          /\ issue(i, calls[i], callAfterHandler(request[i], resp, stat, reason))
    /\ UNCHANGED <<delivered, requestQueue, request, origin, future, now, error, rules>>

putRulePrepSettles(i, ok) ==
    /\ pc[i] = "putRulePrep"
    /\ LET call == Last(calls[i])
       IN IF ok
          THEN /\ rules' = putRule(rules, call.Name, call.State, call.ScheduleExpression)
               /\ issue(i, settled(i, Succeeded), callAfterPutRulePrep(request[i]))
               /\ UNCHANGED error
          ELSE /\ throw(i, settled(i, Failed), SchedulerError("putRule"))
               /\ UNCHANGED rules
    /\ UNCHANGED <<delivered, requestQueue, request, origin, future, response, status,
                   statusReason, now>>

\* putTargets settles; then `now` is read and the enabling putRule is issued.
putTargetsSettles(i, ok, t) ==
    /\ pc[i] = "putTargets"
    /\ LET call == Last(calls[i])
           target == [Id |-> CW_EVENTS_TARGET_ID,
                      Input |-> targetInput(request[i], response[i]),
                      returned |-> response[i].continuationAttributes]
       IN IF ok
          THEN /\ call.Name \in DOMAIN rules
               /\ rules' = putTargets(rules, call.Name, target)
               /\ now' = [now EXCEPT ![i] = t]
               /\ issue(i, settled(i, Succeeded),
                        callAfterPutTargets(request[i], response[i], t))
               /\ UNCHANGED error
          ELSE /\ throw(i, settled(i, Failed), SchedulerError("putTargets"))
               /\ UNCHANGED <<rules, now>>
    /\ UNCHANGED <<delivered, requestQueue, request, origin, future, response, status,
                   statusReason>>

putRuleScheduleSettles(i, ok) ==
    /\ pc[i] = "putRuleSchedule"
    /\ LET call == Last(calls[i])
       IN IF ok
          THEN /\ rules' = putRule(rules, call.Name, call.State, call.ScheduleExpression)
               /\ return(i, settled(i, Succeeded))
               /\ UNCHANGED error
          ELSE /\ throw(i, settled(i, Failed), SchedulerError("putRule"))
               /\ UNCHANGED rules
    /\ UNCHANGED <<delivered, requestQueue, request, origin, future, response, status,
                   statusReason, now>>

\* send settles: a delivery error is thrown on; otherwise the rule of a
\* continuation is torn down, starting with removeTargets.
sendSettles(i, res) ==
    /\ pc[i] = "sendResponse"
    /\ IF sendError(res) # NoError
       THEN throw(i, settled(i, res), sendError(res))
       ELSE /\ IF needsCleanup(request[i])
               THEN issue(i, settled(i, res), removeTargetsCall(cleanupRuleName(request[i])))
               ELSE return(i, settled(i, res))
            /\ UNCHANGED error
    /\ UNCHANGED <<delivered, requestQueue, request, origin, future, response, status,
                   statusReason, now, rules>>

\* Mutant of teardownFails: the failure of a teardown call is thrown on.
teardownFails_Rethrow(i) ==
    throw(i, settled(i, Failed), SchedulerError(Last(calls[i]).op))

\* The catch block around removeTargets and deleteRule: the failure is logged
\* and processRequest goes on to return { status }.
teardownFails(i) ==
    /\ return(i, settled(i, Failed))
    /\ UNCHANGED error

\* removeTargets settles: a failure is caught and logged.
removeTargetsSettles(i, ok) ==
    /\ pc[i] = "removeTargets"
    /\ LET call == Last(calls[i])
       IN IF ok
          THEN /\ call.Name \in DOMAIN rules
               /\ rules' = removeTargets(rules, call.Name, CW_EVENTS_TARGET_ID)
               /\ issue(i, settled(i, Succeeded), deleteRuleCall(call.Name))
               /\ UNCHANGED error
          ELSE /\ teardownFails(i)
               /\ UNCHANGED rules
    /\ UNCHANGED <<delivered, requestQueue, request, origin, future, response, status,
                   statusReason, now>>

\* deleteRule settles: a failure is caught and logged.
deleteRuleSettles(i, ok) ==
    /\ pc[i] = "deleteRule"
    /\ LET call == Last(calls[i])
       IN IF ok
          THEN /\ call.Name \in DOMAIN rules
               /\ rules[call.Name].Targets = {}
               /\ rules' = deleteRule(rules, call.Name)
               /\ return(i, settled(i, Succeeded))
               /\ UNCHANGED error
          ELSE /\ teardownFails(i)
               /\ UNCHANGED rules
    /\ UNCHANGED <<delivered, requestQueue, request, origin, future, response, status,
                   statusReason, now>>

\* Mutant of settlement: the future resolves to the status however
\* processRequest ended.
settlement_Resolves(i) == Resolved(status[i])

\* What processThisRequest settles the future with: resolveRequest(status)
\* when processRequest returned, rejectRequest(err) when it threw.
settlement(i) ==
    IF pc[i] = "returned" THEN Resolved(status[i]) ELSE Rejected(error[i])

\* Mutant of shift: the settled entry stays at the head of the queue.
shift_Keep(queue) == queue

\* `this.requestQueue.shift()`: the queue without its head.
shift(queue) == Tail(queue)

\* processThisRequest after processRequest has settled: the promise is resolved
\* or rejected, the head of the queue is removed and the next entry is started.
processThisRequestSettles(i) ==
    /\ pc[i] \in {"returned", "thrown"}
    /\ future' = [future EXCEPT ![i] = settlement(i)]
    /\ LET queue == shift(requestQueue)
           next == processNextRequest(queue)
       IN /\ requestQueue' = queue
          /\ pc' = [k \in DOMAIN pc |->
                      IF k = next THEN handlerOperation(request[k])
                      ELSE IF k = i THEN "done"
                      ELSE pc[k]]
    /\ request' = [request EXCEPT ![i] = NoEvent]
    /\ origin' = [origin EXCEPT ![i] = Fresh]
    /\ response' = [response EXCEPT ![i] = NoResponse]
    /\ status' = [status EXCEPT ![i] = "FAILED"]
    /\ statusReason' = [statusReason EXCEPT ![i] = ""]
    /\ now' = [now EXCEPT ![i] = 0]
    /\ error' = [error EXCEPT ![i] = NoError]
    /\ calls' = [calls EXCEPT ![i] = <<>>]
    /\ UNCHANGED <<delivered, rules>>

\* ---------------------------------------------------------------- ACMCloudfrontCertificate

\* The messages of the errors the handler throws (the names of the certificate
\* and of the domain are left out), and that of a rejected service call.
CannotFindMessage == "Cannot find certificate"
NoArnMessage == "Failed to request certificate: No certificate ARN returned"
NoDNSOptionMessage == "Cannot find DNS domain validation option in certificate"
ServiceErrorMessage == "service error"

\* The handler operation goes on to issue `call` and awaits it.
issueACM(a, call) == [a EXCEPT !.pc = call.op, !.calls = Append(@, call)]

\* The handler operation throws.
throwACM(a, msg) == [a EXCEPT !.pc = "settled", !.outcome = Thrown(msg)]

\* The handler operation returns { physicalResourceId, attributes }.
returnACM(a, physicalResourceId) ==
    [a EXCEPT !.pc = "settled", !.outcome = Definite(physicalResourceId)]

\* createCertificate up to its first await: the DNS validation options are
\* tested, then the certificate is requested.
createCertificate(a) ==
    IF invalidDNSOptions(a.params)
    THEN throwACM(a, InvalidOptionsMessage)
    ELSE issueACM(a, requestCertificateCall(a.params))

\* What deleteResource and updateResource do once findCertificateArn has
\* returned certificateArn.
afterFindCertificateArn(a, certificateArn) ==
    LET found == [a EXCEPT !.certificateArn = certificateArn]
        path == updatePath(findChangedAttributes(a.params, a.oldParams))
    IN IF certificateArn = NoArn THEN throwACM(found, CannotFindMessage)
       ELSE IF a.operation = "deleteResource"
       THEN issueACM(found, deleteCertificateCall(certificateArn))
       ELSE IF path = "updateCertificateOptions"
       THEN issueACM(found,
                updateCertificateOptionsCall(certificateArn,
                    Get(a.params, "CertificateTransparencyLoggingPreference")))
       ELSE IF path = "updateTags"
       THEN issueACM(found, listTagsForCertificateCall(certificateArn))
       ELSE createCertificate(found)

\* What createResource or updateResource returns once createCertificate has
\* returned the attributes of the new certificate.
afterCreateCertificate(a) ==
    LET certificateId == getCertificateId(a.newArn)
    IN IF a.operation = "createResource"
       THEN returnACM(a, a.physicalResourceId \o <<certificateId>>)
       ELSE returnACM(a, replacementPhysicalResourceId(a.physicalResourceId,
                                                       a.certificateArn, certificateId))

\* The orchestrator delivers an event for the certificate resource: handleRequest
\* starts processRequest, which calls the handler operation; that one runs up
\* to its first await.
ACMDeliver(req, params, oldParams, pages) ==
    /\ Len(request) = 0
    /\ delivered' = delivered \cup {req.RequestId}
    /\ handleRequest(req, Fresh)
    /\ LET a == [ACMIdle EXCEPT !.operation = handlerOperation(req),
                                !.physicalResourceId = physicalResourceIdOf(req),
                                !.params = params,
                                !.oldParams = oldParams,
                                !.pages = pages]
       IN acm' = IF req.RequestType = "Create"
                 THEN createCertificate(a)
                 ELSE issueACM(a, listCertificatesCall(0))
    /\ UNCHANGED rules

\* The state of handleRequest and processRequest, which the handler operation
\* leaves alone while it runs.
engineVars == <<delivered, requestQueue, request, origin, future, pc, response, status,
                statusReason, now, error, calls, rules>>

\* listCertificates settles with a page of the listing (collect): with a
\* NextToken the next page is asked for, without one the certificate is looked
\* up among all the certificates collected.
listCertificatesSettles(ok) ==
    /\ acm.pc = "listCertificates"
    /\ LET page == Last(acm.calls).NextToken + 1
           nextToken == IF page < Len(acm.pages) THEN page ELSE 0
           collected == [acm EXCEPT !.known = @ \o acm.pages[page]]
       IN acm' = IF ~ok THEN throwACM(acm, ServiceErrorMessage)
                 ELSE IF nextToken # 0
                 THEN issueACM(collected, listCertificatesCall(nextToken))
                 ELSE afterFindCertificateArn(collected,
                         findCertificate(collected.known, acm.physicalResourceId,
                                         Get(acm.params, "DomainName")))
    /\ UNCHANGED engineVars

\* deleteCertificate settles: deleteResource returns the physical resource id.
deleteCertificateSettles(ok) ==
    /\ acm.pc = "deleteCertificate"
    /\ acm' = IF ok THEN returnACM(acm, acm.physicalResourceId)
              ELSE throwACM(acm, ServiceErrorMessage)
    /\ UNCHANGED engineVars

\* updateCertificateOptions settles: updateResource returns the physical
\* resource id.
updateCertificateOptionsSettles(ok) ==
    /\ acm.pc = "updateCertificateOptions"
    /\ acm' = IF ok THEN returnACM(acm, acm.physicalResourceId)
              ELSE throwACM(acm, ServiceErrorMessage)
    /\ UNCHANGED engineVars

\* listTagsForCertificate settles with the tags of the certificate: the tags
\* to add are computed and added.
listTagsForCertificateSettles(ok, existingTags) ==
    /\ acm.pc = "listTagsForCertificate"
    /\ acm' = IF ok
              THEN issueACM([acm EXCEPT !.existingTags = existingTags],
                            addTagsToCertificateCall(acm.certificateArn,
                                tagsToAdd(ItemsOrEmpty(Get(acm.params, "Tags")),
                                          existingTags)))
              ELSE throwACM(acm, ServiceErrorMessage)
    /\ UNCHANGED engineVars

\* addTagsToCertificate settles: the tags to remove are computed and removed.
addTagsToCertificateSettles(ok) ==
    /\ acm.pc = "addTagsToCertificate"
    /\ acm' = IF ok
              THEN issueACM(acm,
                            removeTagsFromCertificateCall(acm.certificateArn,
                                tagsToRemove(ItemsOrEmpty(Get(acm.params, "Tags")),
                                             acm.existingTags)))
              ELSE throwACM(acm, ServiceErrorMessage)
    /\ UNCHANGED engineVars

\* removeTagsFromCertificate settles: updateResource returns the physical
\* resource id.
removeTagsFromCertificateSettles(ok) ==
    /\ acm.pc = "removeTagsFromCertificate"
    /\ acm' = IF ok THEN returnACM(acm, acm.physicalResourceId)
              ELSE throwACM(acm, ServiceErrorMessage)
    /\ UNCHANGED engineVars

\* requestCertificate settles: with an error, without an ARN, or with the ARN
\* of the new certificate, whose validation options the service holds as
\* `certificate`. With a DNS validation option in the parameters the poll of
\* getValidationResourceRecords is started (setInterval), without one the
\* handler waits for the validation at once.
requestCertificateSettles(result, certificate) ==
    /\ acm.pc = "requestCertificate"
    /\ acm' = CASE result.kind = "error" -> throwACM(acm, ServiceErrorMessage)
                [] result.kind = "ok" /\ result.CertificateArn = NoArn ->
                      throwACM(acm, NoArnMessage)
                [] OTHER ->
                      LET requested == [acm EXCEPT !.newArn = result.CertificateArn,
                                                   !.certificate = certificate]
                      IN IF Len(dnsDomainValidationOptions(acm.params)) # 0
                         THEN [requested EXCEPT !.pc = "getValidationResourceRecords"]
                         ELSE issueACM(requested, waitForCall(result.CertificateArn))
    /\ UNCHANGED engineVars

\* Mutant of pollOutcome: missing resource records end the poll with an error.
pollOutcome_MissingIsFatal(certificate) ==
    IF ~certificate.present THEN "rejectNoCertificate"
    ELSE IF Len(describedDNSOptions(certificate)) = 0 THEN "rejectNoDNSOption"
    ELSE IF Len(describedDNSOptions(certificate)) - Len(describedResourceRecords(certificate)) > 0
         THEN "rejectNoDNSOption"
         ELSE "resolve"

\* Mutant of pollOutcome: a certificate without DNS validation option is polled again.
pollOutcome_NoOptionRetries(certificate) ==
    IF ~certificate.present THEN "rejectNoCertificate"
    ELSE IF Len(describedDNSOptions(certificate)) - Len(describedResourceRecords(certificate)) > 0
            \/ Len(describedDNSOptions(certificate)) = 0
         THEN "retry"
         ELSE "resolve"

\* What a tick of the poll does with the described certificate.
pollOutcome(certificate) ==
    IF ~certificate.present THEN "rejectNoCertificate"
    ELSE IF Len(describedDNSOptions(certificate)) = 0 THEN "rejectNoDNSOption"
    ELSE IF Len(describedDNSOptions(certificate)) - Len(describedResourceRecords(certificate)) > 0
         THEN "retry"
         ELSE "resolve"

\* A tick of the interval of getValidationResourceRecords: the certificate is
\* described; the poll is rejected, goes on, or resolves with the resource
\* records, which are then upserted (createCertificate). The retries are
\* counted up to MaxRetries.
pollTick ==
    /\ acm.pc = "getValidationResourceRecords"
    /\ LET outcome == pollOutcome(acm.certificate)
           described == [acm EXCEPT !.calls = Append(@, describeCertificateCall(acm.newArn))]
       IN /\ outcome = "retry" => acm.retries < MaxRetries
          /\ acm' =
               CASE outcome = "rejectNoCertificate" -> throwACM(described, CannotFindMessage)
                 [] outcome = "rejectNoDNSOption" -> throwACM(described, NoDNSOptionMessage)
                 [] outcome = "retry" -> [described EXCEPT !.retries = @ + 1]
                 [] OTHER ->
                       issueACM(described,
                                changeResourceRecordSetsCall(
                                    Get(dnsDomainValidationOptions(acm.params)[1], "HostedZoneId"),
                                    describedResourceRecords(acm.certificate)))
    /\ UNCHANGED engineVars

\* A tick of the interval at which describeCertificate is rejected: the await
\* is inside the async callback of setInterval, whose promise nobody holds, so
\* the rejection is neither caught nor passed to `reject`. It is an unhandled
\* rejection of the process: depending on the runtime the process only warns,
\* and the interval stays set, or it exits with the invocation unsettled. The
\* rejections are counted up to MaxRejections.
describeCertificateRejects(exits) ==
    /\ acm.pc = "getValidationResourceRecords"
    /\ acm.unhandledRejections < MaxRejections
    /\ acm' = [acm EXCEPT !.calls = Append(@, describeCertificateCall(acm.newArn)),
                          !.unhandledRejections = @ + 1,
                          !.pc = IF exits THEN "exited" ELSE @]
    /\ UNCHANGED engineVars

\* The certificate service attaches the resource record of a DNS validation option.
attachResourceRecord ==
    /\ acm.pc = "getValidationResourceRecords"
    /\ \E k \in DOMAIN acm.certificate.DomainValidationOptions :
          /\ acm.certificate.DomainValidationOptions[k] = DomainValidation("DNS", NoRecord)
          /\ acm' = [acm EXCEPT !.certificate.DomainValidationOptions[k] =
                                    DomainValidation("DNS", ResourceRecord(k))]
    /\ UNCHANGED engineVars

\* The certificate service stops reporting validation options for the certificate.
dropValidationOptions ==
    /\ acm.pc = "getValidationResourceRecords"
    /\ acm.certificate.DomainValidationOptions # <<>>
    /\ acm' = [acm EXCEPT !.certificate.DomainValidationOptions = <<>>]
    /\ UNCHANGED engineVars

\* changeResourceRecordSets settles: the handler waits for the validation.
changeResourceRecordSetsSettles(ok) ==
    /\ acm.pc = "changeResourceRecordSets"
    /\ acm' = IF ok THEN issueACM(acm, waitForCall(acm.newArn))
              ELSE throwACM(acm, ServiceErrorMessage)
    /\ UNCHANGED engineVars

\* waitFor('certificateValidated') settles: createCertificate returns the
\* attributes, and the handler operation the new physical resource id.
waitForSettles(ok) ==
    /\ acm.pc = "waitFor"
    /\ acm' = IF ok THEN afterCreateCertificate(acm)
              ELSE throwACM(acm, ServiceErrorMessage)
    /\ UNCHANGED engineVars

\* The handler operation has settled: processRequest goes on with its result.
ACMHandlerSettles ==
    /\ acm.pc = "settled"
    /\ handlerSettles(1, acm.outcome)
    /\ UNCHANGED acm

\* ---------------------------------------------------------------- specification

\* Continuation delays (seconds) and the instants `now` is read at.
Delays == {90}
Nows == {At(1, 10, 30, 20)}

HandlerOutcomes ==
    {Definite(<<>>), Definite(<<"p2">>), Thrown(""), Thrown("boom")}
    \cup {ContinuationRequired(d, a) : d \in Delays, a \in ContinuationAttributeValues}

Invocations == DOMAIN pc

Next ==
    \/ Submit /\ UNCHANGED acm
    \/ TargetInvoked /\ UNCHANGED acm
    \/ \E i \in Invocations, outcome \in HandlerOutcomes :
          handlerSettles(i, outcome) /\ UNCHANGED acm
    \/ \E i \in Invocations, ok \in BOOLEAN : putRulePrepSettles(i, ok) /\ UNCHANGED acm
    \/ \E i \in Invocations, ok \in BOOLEAN, t \in Nows :
          putTargetsSettles(i, ok, t) /\ UNCHANGED acm
    \/ \E i \in Invocations, ok \in BOOLEAN : putRuleScheduleSettles(i, ok) /\ UNCHANGED acm
    \/ \E i \in Invocations, res \in HttpResults : sendSettles(i, res) /\ UNCHANGED acm
    \/ \E i \in Invocations, ok \in BOOLEAN : removeTargetsSettles(i, ok) /\ UNCHANGED acm
    \/ \E i \in Invocations, ok \in BOOLEAN : deleteRuleSettles(i, ok) /\ UNCHANGED acm
    \/ \E i \in Invocations : processThisRequestSettles(i) /\ UNCHANGED acm

Spec == Init /\ [][Next]_vars

\* The scheduling of one continuation, over a range of delays and of instants
\* at which `now` is read: every minute of an hour, at the start, the middle
\* and the end of the minute, early and late in the day.
CronDelays == {0, 1, 29, 30, 60, 90, 3600, 86400}
CronNows == {At(1, h, m, sec) : h \in {0, 10, 23}, m \in 0..59, sec \in {0, 30, 59}}

NextCron ==
    \/ Len(request) = 0 /\ Submit /\ UNCHANGED acm
    \/ \E i \in Invocations, d \in CronDelays :
          handlerSettles(i, ContinuationRequired(d, CAObject)) /\ UNCHANGED acm
    \/ \E i \in Invocations : putRulePrepSettles(i, TRUE) /\ UNCHANGED acm
    \/ \E i \in Invocations, t \in CronNows : putTargetsSettles(i, TRUE, t) /\ UNCHANGED acm
    \/ \E i \in Invocations : putRuleScheduleSettles(i, TRUE) /\ UNCHANGED acm

SpecCron == Init /\ [][NextCron]_vars

\* The status callback for responses of all sizes: without attributes, with
\* small ones, and with attributes that bring the body just under the limit,
\* to the limit and far over it.
AttributesLengths ==
    {0, 100, BODY_LIMIT - EnvelopeLength - 1, BODY_LIMIT - EnvelopeLength, 2 * BODY_LIMIT}
SendOutcomes ==
    {DefiniteWith(physical, length) : physical \in {<<>>, <<"p2">>}, length \in AttributesLengths}
    \cup {Thrown("boom")}

NextSend ==
    \/ Submit /\ UNCHANGED acm
    \/ \E i \in Invocations, outcome \in SendOutcomes :
          handlerSettles(i, outcome) /\ UNCHANGED acm
    \/ \E i \in Invocations, res \in HttpResults : sendSettles(i, res) /\ UNCHANGED acm
    \/ \E i \in Invocations : processThisRequestSettles(i) /\ UNCHANGED acm

SpecSend == Init /\ [][NextSend]_vars

\* The certificate resource: the events, the property sets, the listings of
\* the certificate service and what it holds for a requested certificate.
Domains == {"a.example", "b.example"}
Preferences == {PUndefined, PString("ENABLED"), PString("DISABLED")}

Tag(key, value) == PObject({<<"Key", PString(key)>>, <<"Value", PString(value)>>})
TagLists ==
    { <<Tag("A", "1")>>, <<Tag("A", "1"), Tag("B", "2")>>, <<Tag("B", "2"), Tag("C", "3")>>,
      <<Tag("C", "3"), Tag("B", "2")>> }
TagProperties == {PUndefined} \cup {PArray(tagList) : tagList \in TagLists}
ExistingTagLists ==
    TagLists \cup {<<>>, <<Tag("B", "2"), Tag("A", "1")>>, <<Tag("A", "2"), Tag("B", "2")>>}

DNSOption(domain) ==
    PObject({<<"DomainName", PString(domain)>>, <<"HostedZoneId", PString("Z1")>>})
EmailOption(domain) ==
    PObject({<<"DomainName", PString(domain)>>, <<"ValidationDomain", PString("example")>>})
ValidationOptionLists ==
    { <<DNSOption("a.example")>>, <<DNSOption("b.example")>>,
      <<DNSOption("a.example"), DNSOption("a.example")>>,
      <<EmailOption("a.example")>>,
      <<EmailOption("a.example"), DNSOption("a.example")>> }
ValidationOptionProperties == {PUndefined} \cup {PArray(options) : options \in ValidationOptionLists}

\* A property set: the properties that are undefined are not there.
Properties(domain, ctLoggingPreference, options, tagList) ==
    PObject({e \in { <<"DomainName", PString(domain)>>,
                     <<"CertificateTransparencyLoggingPreference", ctLoggingPreference>>,
                     <<"DomainValidationOptions", options>>,
                     <<"Tags", tagList>> } : e[2] # PUndefined})

CreateProperties ==
    {Properties("a.example", ct, options, tagList) :
        ct \in {PUndefined, PString("ENABLED")},
        options \in ValidationOptionProperties,
        tagList \in {PUndefined, PArray(<<Tag("A", "1")>>)}}
OldProperties ==
    {Properties("a.example", ct, PUndefined, tagList) :
        ct \in {PUndefined, PString("ENABLED")},
        tagList \in {PUndefined, PArray(<<Tag("A", "1")>>),
                     PArray(<<Tag("A", "1"), Tag("B", "2")>>)}}
NewProperties ==
    {Properties("a.example", ct, PUndefined, tagList) :
        ct \in Preferences, tagList \in TagProperties}
    \cup {Properties("b.example", PString("ENABLED"), PArray(<<DNSOption("a.example")>>), tagList) :
            tagList \in TagProperties}
    \cup {Properties("b.example", ct, PUndefined, tagList) :
            ct \in Preferences, tagList \in TagProperties}
    \cup {Properties("b.example", ct, PArray(<<DNSOption("b.example")>>), tagList) :
            ct \in {PUndefined, PString("ENABLED")},
            tagList \in {PUndefined, PArray(<<Tag("A", "1")>>)}}

\* The physical resource ids of an existing resource: with the id of its
\* certificate at the end, or without one (a legacy resource).
PhysicalResourceIds == {<<"res", "c1">>, <<"legacy">>}

\* The listings of the certificate service, page by page.
Listings ==
    { << <<>> >>,
      << <<CertificateSummary("c1", "a.example")>> >>,
      << <<CertificateSummary("c2", "b.example")>> >>,
      << <<CertificateSummary("c2", "b.example")>>,
         <<CertificateSummary("c1", "a.example")>> >>,
      << <<CertificateSummary("c2", "a.example")>>,
         <<CertificateSummary("c1", "a.example")>> >> }

ACMEvents ==
    {Event("Create", "r1", LogicalShort, <<>>)}
    \cup {Event(type, "r2", LogicalShort, id) :
            type \in {"Update", "Delete"}, id \in PhysicalResourceIds}

\* What requestCertificate settles with, and what the service then holds.
NewCertificateId == "c3"
RequestCertificateResults ==
    { [kind |-> "error", CertificateArn |-> NoArn],
      [kind |-> "ok", CertificateArn |-> NoArn],
      [kind |-> "ok", CertificateArn |-> Arn(NewCertificateId)] }
RequestedCertificates ==
    { NoCertificate,
      Certificate(<<>>),
      Certificate(<<DomainValidation("EMAIL", NoRecord)>>),
      Certificate(<<DomainValidation("DNS", NoRecord)>>),
      Certificate(<<DomainValidation("DNS", ResourceRecord(1))>>),
      Certificate(<<DomainValidation("DNS", NoRecord), DomainValidation("DNS", NoRecord)>>),
      Certificate(<<DomainValidation("EMAIL", NoRecord), DomainValidation("DNS", NoRecord)>>) }

\* What the PUT of the report ends in.
ReportResults ==
    {[kind |-> "response", statusCode |-> 200], [kind |-> "error", statusCode |-> 0]}

NextACM ==
    \/ \E req \in ACMEvents :
          \/ /\ req.RequestType = "Create"
             /\ \E params \in CreateProperties : ACMDeliver(req, params, PUndefined, << <<>> >>)
          \/ /\ req.RequestType = "Delete"
             /\ \E params \in CreateProperties, pages \in Listings :
                   ACMDeliver(req, params, PUndefined, pages)
          \/ /\ req.RequestType = "Update"
             /\ \E params \in NewProperties, oldParams \in OldProperties, pages \in Listings :
                   ACMDeliver(req, params, oldParams, pages)
    \/ \E ok \in BOOLEAN : listCertificatesSettles(ok)
    \/ \E ok \in BOOLEAN : deleteCertificateSettles(ok)
    \/ \E ok \in BOOLEAN : updateCertificateOptionsSettles(ok)
    \/ \E ok \in BOOLEAN, existingTags \in ExistingTagLists :
          listTagsForCertificateSettles(ok, existingTags)
    \/ \E ok \in BOOLEAN : addTagsToCertificateSettles(ok)
    \/ \E ok \in BOOLEAN : removeTagsFromCertificateSettles(ok)
    \/ \E result \in RequestCertificateResults, certificate \in RequestedCertificates :
          /\ result.CertificateArn = NoArn => certificate = NoCertificate
          /\ Len(dnsDomainValidationOptions(acm.params)) = 0 => certificate = Certificate(<<>>)
          /\ requestCertificateSettles(result, certificate)
    \/ pollTick
    \/ \E exits \in BOOLEAN : describeCertificateRejects(exits)
    \/ attachResourceRecord
    \/ dropValidationOptions
    \/ \E ok \in BOOLEAN : changeResourceRecordSetsSettles(ok)
    \/ \E ok \in BOOLEAN : waitForSettles(ok)
    \/ ACMHandlerSettles
    \/ \E i \in Invocations, res \in ReportResults : sendSettles(i, res) /\ UNCHANGED acm

SpecACM == Init /\ [][NextACM]_vars

\* The same, with the ticks of the interval firing for as long as it is set.
SpecACMPoll == SpecACM /\ WF_vars(pollTick)

\* The queue of handleRequest under fair scheduling: requests arrive at any
\* moment, every awaited call of a processRequest execution settles, one way
\* or the other, and every processRequest that has ended is taken off the queue.
QueueOutcomes ==
    {Definite(<<>>), Thrown("boom"), ContinuationRequired(60, CAObject)}

Progress ==
    \/ \E i \in Invocations, outcome \in QueueOutcomes : handlerSettles(i, outcome)
    \/ \E i \in Invocations, ok \in BOOLEAN : putRulePrepSettles(i, ok)
    \/ \E i \in Invocations, ok \in BOOLEAN, t \in Nows : putTargetsSettles(i, ok, t)
    \/ \E i \in Invocations, ok \in BOOLEAN : putRuleScheduleSettles(i, ok)
    \/ \E i \in Invocations, res \in ReportResults : sendSettles(i, res)
    \/ \E i \in Invocations, ok \in BOOLEAN : removeTargetsSettles(i, ok)
    \/ \E i \in Invocations, ok \in BOOLEAN : deleteRuleSettles(i, ok)
    \/ \E i \in Invocations : processThisRequestSettles(i)

NextQueue ==
    \/ Submit /\ UNCHANGED acm
    \/ TargetInvoked /\ UNCHANGED acm
    \/ Progress /\ UNCHANGED acm

SpecQueue == Init /\ [][NextQueue]_vars /\ WF_vars(Progress /\ UNCHANGED acm)

\* ---------------------------------------------------------------- properties

\* The invocations whose processRequest is executing.
Executing == {i \in Invocations : pc[i] \in InProgress}

\* The invocations whose closure is live: started and not yet done.
Live == {i \in Invocations : pc[i] \notin {"queued", "done"}}

\* The invocations whose handler operation has settled.
HandlerSettled == {i \in Live : pc[i] \notin HandlerOperations}

Settled(i) == future[i].state # "pending"

\* C1: at most one processRequest execution is in progress at any moment,
\* whenever the handleRequest calls arrive.
C1_OneAtATime == Cardinality(Executing) <= 1

\* C1 witness: a request arrived while another was in the middle of its
\* scheduler calls, a third one has been processed before.
C1_Witness ==
    \E i, j, k \in Invocations :
        /\ pc[i] = "putTargets"
        /\ pc[j] = "queued"
        /\ pc[k] = "done"

\* C2: processRequest executions start in the order of the handleRequest calls:
\* a request that has started finds every earlier one settled.
C2_SubmissionOrder ==
    \A i, j \in Invocations :
        (i < j /\ pc[j] # "queued") => (Settled(i) /\ pc[i] = "done")

\* C2 witness: the second of three requests runs, the first one is settled,
\* the third one waits.
C2_Witness ==
    /\ Len(pc) = 3
    /\ Settled(1)
    /\ pc[2] \in InProgress
    /\ pc[3] = "queued"

\* C3: when processRequest throws, only the promise of that request is
\* rejected, the oldest waiting request is started in the same step, and a
\* waiting request always has a running one before it.
C3_FailureIsolated ==
    /\ [](\A j \in Invocations :
            pc[j] = "queued" =>
                \E i \in Invocations : i < j /\ pc[i] \in InProgress \cup {"returned", "thrown"})
    /\ [][\A i \in Invocations :
            (pc[i] = "thrown" /\ pc'[i] = "done") =>
                /\ future'[i].state = "rejected"
                /\ \A j \in Invocations \ {i} :
                      /\ future'[j] = future[j]
                      /\ (pc[j] = "queued" /\ \A k \in Invocations : k < j => pc[k] # "queued")
                            => pc'[j] \in HandlerOperations]_vars

\* C3 witness: a request failed and rejected its promise, the request behind it
\* ran and resolved its own.
C3_Witness ==
    \E i, j \in Invocations :
        /\ i < j
        /\ future[i].state = "rejected"
        /\ future[j].state = "resolved"

\* The calls `log` holds for operation `op`.
CallsOf(log, op) == {k \in DOMAIN log : log[k].op = op}

\* C4: for a continuation outcome the scheduler calls are putRule DISABLED with
\* the sentinel, putTargets, putRule ENABLED with the real expression, in this
\* order and nothing else; the rule stays disabled until the target is attached;
\* no status callback is sent; a processRequest that returns has made all three.
C4_ScheduleOrder ==
    \A i \in HandlerSettled :
        response[i].kind = "continuation" =>
            LET log == calls[i]
                name == log[1].Name
            IN /\ Len(log) \in 1..3
               /\ log[1].op = "putRule" /\ log[1].State = "DISABLED"
               /\ log[1].ScheduleExpression = PastExpression
               /\ Len(log) >= 2 =>
                     /\ log[1].result = Succeeded
                     /\ log[2].op = "putTargets" /\ log[2].Name = name
               /\ Len(log) >= 3 =>
                     /\ log[2].result = Succeeded
                     /\ log[3].op = "putRule" /\ log[3].Name = name
                     /\ log[3].State = "ENABLED"
                     /\ log[3].ScheduleExpression # PastExpression
               /\ pc[i] \in {"putTargets", "putRuleSchedule"} =>
                     /\ name \in DOMAIN rules
                     /\ rules[name].State = "DISABLED"
               /\ pc[i] \in {"putRuleSchedule", "returned"} =>
                     /\ name \in DOMAIN rules
                     /\ \E t \in rules[name].Targets : t.Id = CW_EVENTS_TARGET_ID
               /\ pc[i] = "returned" =>
                     /\ Len(log) = 3
                     /\ log[3].result = Succeeded
                     /\ rules[name].State = "ENABLED"
               /\ CallsOf(log, "send") = {}

\* C4 witness: a continuation has been scheduled completely.
C4_Witness ==
    \E i \in Invocations :
        /\ response[i].kind = "continuation"
        /\ pc[i] = "returned"
        /\ Len(calls[i]) = 3

\* C5: an invocation sends the status callback at most once: once when the
\* handler operation returned a definite result or threw, never when it returned
\* a continuation; it never both reports and schedules.
C5_ReportOrSchedule ==
    \A i \in HandlerSettled :
        LET sends == Cardinality(CallsOf(calls[i], "send"))
            schedules == Cardinality(CallsOf(calls[i], "putRule") \cup
                                     CallsOf(calls[i], "putTargets"))
        IN /\ sends <= 1
           /\ response[i].kind = "continuation" => sends = 0
           /\ response[i].kind # "continuation" => sends = 1
           /\ ~(sends > 0 /\ schedules > 0)

\* C5 witness: one invocation has reported after a throw, and a later one has
\* scheduled a continuation without reporting.
C5_Witness ==
    \E i \in Invocations :
        /\ pc[i] = "returned"
        /\ response[i].kind = "continuation"
        /\ CallsOf(calls[i], "send") = {}
        /\ \E j \in Invocations : j < i /\ future[j] = Resolved("FAILED")

\* The invocations whose handler operation threw (the local response is unset).
HandlerThrew == {i \in HandlerSettled : response[i].kind = "undefined"}

\* A result of the PUT that is a delivery failure: a transport error, or a
\* response with no status code or one of 400 and above.
DeliveryFailed(result) ==
    \/ result.kind = "error"
    \/ result.kind = "response" /\ (result.statusCode = 0 \/ result.statusCode >= 400)

Delivered(result) == result.kind = "response" /\ ~DeliveryFailed(result)

\* The oldest waiting invocation, if any, is started in this step.
OldestWaitingStarts ==
    \A j \in Invocations :
        (pc[j] = "queued" /\ \A k \in Invocations : k < j => pc[k] # "queued")
            => pc'[j] \in HandlerOperations

\* C6 as stated: if the handler operation throws, processRequest does not
\* throw and sends FAILED with the message of the exception as Reason.
C6_Original ==
    \A i \in HandlerThrew :
        /\ pc[i] # "thrown"
        /\ calls[i][1].op = "send"
        /\ calls[i][1].body.Status = "FAILED"
        /\ calls[i][1].body.Reason = statusReason[i]

\* C6 as amended: if the handler operation throws an Error, processRequest
\* sends FAILED with the message as Reason, or 'Unknown error' for an empty
\* message; it throws only when the delivery of that callback fails, and
\* otherwise the promise resolves to FAILED.
C6_HandlerErrorReported ==
    /\ [](\A i \in HandlerThrew :
            /\ status[i] = "FAILED"
            /\ calls[i][1].op = "send"
            /\ calls[i][1].body.Status = "FAILED"
            /\ calls[i][1].body.Reason =
                  (IF statusReason[i] # "" THEN statusReason[i] ELSE "Unknown error")
            /\ pc[i] = "thrown" =>
                  /\ error[i].kind = "delivery"
                  /\ DeliveryFailed(calls[i][1].result)
            /\ Delivered(calls[i][1].result) => pc[i] # "thrown")
    /\ [][\A i \in HandlerThrew :
            (pc[i] = "returned" /\ pc'[i] = "done") => future'[i] = Resolved("FAILED")]_vars

\* C6 witness: a handler operation threw 'boom', FAILED was delivered with it
\* and processRequest returned.
C6_Witness ==
    \E i \in HandlerThrew :
        /\ pc[i] = "returned"
        /\ statusReason[i] = "boom"
        /\ calls[i][1].body.Reason = "boom"

\* C7: when the delivery of the status callback fails, processRequest throws
\* the delivery error, nothing is sent a second time and no other call
\* follows; the promise is rejected with that error and the oldest waiting
\* request is started.
C7_DeliveryFailureRejects ==
    /\ [](\A i \in Live :
            \A k \in CallsOf(calls[i], "send") :
                DeliveryFailed(calls[i][k].result) =>
                    /\ pc[i] = "thrown"
                    /\ error[i].kind = "delivery"
                    /\ error[i].statusCode = calls[i][k].result.statusCode
                    /\ error[i].message =
                          (IF calls[i][k].result.kind = "error"
                           THEN "transport error" ELSE "Unexpected status code")
                    /\ k = Len(calls[i])
                    /\ Cardinality(CallsOf(calls[i], "send")) = 1)
    /\ [][\A i \in Invocations :
            (pc[i] = "thrown" /\ error[i].kind = "delivery" /\ pc'[i] = "done") =>
                /\ future'[i] = Rejected(error[i])
                /\ OldestWaitingStarts]_vars

\* C7 witness: a response without status code rejected the promise of a
\* request, and the request behind it is running.
C7_Witness ==
    \E i, j \in Invocations :
        /\ i < j
        /\ future[i].state = "rejected"
        /\ future[i].error.kind = "delivery"
        /\ future[i].error.message = "Unexpected status code"
        /\ future[i].error.statusCode = 0
        /\ pc[j] \in InProgress

\* The re-delivered invocations that ended in a definite outcome.
DefiniteContinuations ==
    {i \in HandlerSettled :
        request[i].hasContinuationAttributes /\ response[i].kind # "continuation"}

\* C8 as stated: a delivery that carries ContinuationAttributes and produced a
\* definite outcome has, when processRequest ends, sent the status and called
\* removeTargets and deleteRule with the name of the rule that delivered it.
C8_Original ==
    \A i \in DefiniteContinuations :
        pc[i] \in {"returned", "thrown"} =>
            /\ Len(calls[i]) = 3
            /\ calls[i][1].op = "send"
            /\ calls[i][2].op = "removeTargets" /\ calls[i][2].Name = origin[i].rule
            /\ calls[i][3].op = "deleteRule" /\ calls[i][3].Name = origin[i].rule

\* C8 as amended: a delivery whose ContinuationAttributes is a non-null object
\* and that produced a definite outcome calls, once the status callback is
\* delivered, removeTargets and, only if that succeeds, deleteRule, both with
\* the name of the rule that delivered it; with null or non-object attributes,
\* or a failed delivery, nothing is torn down.
C8_Teardown ==
    \A i \in DefiniteContinuations :
        LET log == calls[i]
            isObject == request[i].ContinuationAttributes.type = "object"
        IN /\ log[1].op = "send"
           /\ (isObject /\ Delivered(log[1].result)) =>
                 /\ Len(log) >= 2
                 /\ log[2].op = "removeTargets"
                 /\ log[2].Name = origin[i].rule
                 /\ log[2].result = Succeeded =>
                       /\ Len(log) = 3
                       /\ log[3].op = "deleteRule"
                       /\ log[3].Name = origin[i].rule
                 /\ log[2].result = Failed => (Len(log) = 2 /\ pc[i] = "returned")
           /\ (~isObject \/ ~Delivered(log[1].result)) => Len(log) = 1

\* C8 witness: a continuation ended definitely and its rule has been removed.
C8_Witness ==
    \E i \in DefiniteContinuations :
        /\ pc[i] = "returned"
        /\ Len(calls[i]) = 3
        /\ calls[i][3].op = "deleteRule"
        /\ calls[i][3].result = Succeeded
        /\ origin[i].rule \notin DOMAIN rules

\* The invocations a fired rule delivered.
Redeliveries == {j \in Live : origin[j].rule # <<>>}

\* The target the scheduling invocation i has registered.
RegisteredByScheduling(i, t) ==
    /\ t.Id = CW_EVENTS_TARGET_ID
    /\ t.Input = [request[i] EXCEPT !.hasContinuationAttributes = TRUE,
                                    !.ContinuationAttributes = response[i].continuationAttributes]

\* A re-delivery is taken for a continuation and hands the handler operation
\* the attributes the scheduling invocation returned.
ContinuedWithReturned(j) ==
    /\ request[j].hasContinuationAttributes
    /\ request[j].ContinuationAttributes.type \in {"object", "null"}
    /\ continuationAttributesOf(request[j]) = origin[j].returned

\* C9 as stated: the registered target input is the event plus the returned
\* ContinuationAttributes, and the re-delivery hands the handler operation
\* exactly what the previous invocation returned, whatever that value is.
C9_Original ==
    /\ \A i \in HandlerSettled :
          (response[i].kind = "continuation" /\ pc[i] \in {"putRuleSchedule", "returned"}) =>
              \E t \in rules[calls[i][1].Name].Targets : RegisteredByScheduling(i, t)
    /\ \A j \in Redeliveries : ContinuedWithReturned(j)

\* What JSON serialisation keeps and the type guard accepts: null, or an object
\* without properties holding undefined.
PreservedObject(v) ==
    /\ v.type \in {"object", "null"}
    /\ \A f \in v.fields : f[2] # "undefined"

\* C9 as amended: for returned continuation attributes that are null or an
\* object JSON serialisation preserves, the registered input is the event plus
\* these attributes and the re-delivery hands exactly them to the handler
\* operation.
C9_RoundTrip ==
    /\ \A i \in HandlerSettled :
          (/\ response[i].kind = "continuation"
           /\ PreservedObject(response[i].continuationAttributes)
           /\ pc[i] \in {"putRuleSchedule", "returned"}) =>
              \E t \in rules[calls[i][1].Name].Targets : RegisteredByScheduling(i, t)
    /\ \A j \in Redeliveries :
          PreservedObject(origin[j].returned) => ContinuedWithReturned(j)

\* C9 witness: a re-delivered event hands the object the scheduling invocation
\* returned to the handler operation.
C9_Witness ==
    \E j \in Redeliveries :
        /\ pc[j] \in HandlerOperations
        /\ origin[j].returned = CAObject
        /\ continuationAttributesOf(request[j]) = CAObject

\* The instant a schedule expression denotes (second 0 of its minute).
InstantOf(e) == At(e.day, e.hour, e.minute, 0)

\* C10: the expression of the enabling putRule has a minute field within
\* 0..59 and denotes an instant after `now`; when the delayed time falls in
\* the minute of `now`, the minute field is at least that minute plus one.
C10_TriggerInFuture ==
    \A i \in HandlerSettled :
        (response[i].kind = "continuation" /\ Len(calls[i]) = 3) =>
            LET e == calls[i][3].ScheduleExpression
                when == now[i] + response[i].continuationAfter
            IN /\ e.minute \in 0..59
               /\ InstantOf(e) > now[i]
               /\ (when \div 60 = now[i] \div 60) => e.minute >= getMinutes(now[i]) + 1

\* ---------------------------------------------------------------- the queue

\* The entries of the request queue.
Queued == {requestQueue[k] : k \in DOMAIN requestQueue}

\* The invocations whose operation is in flight: processRequest has started
\* and processThisRequest has not yet settled the promise.
InFlight == {i \in Invocations : pc[i] \notin {"queued", "done"}}

\* C11: the request queue is empty exactly when no operation is in flight;
\* the entries of the queue are the invocations whose promise is pending, the
\* head being the one in flight, so an entry leaves the queue when its
\* operation settles, with a success or a failure, and no settled entry stays.
C11_QueueTracksInFlight ==
    /\ (requestQueue = <<>>) <=> (InFlight = {})
    /\ \A i \in Invocations : (i \in Queued) <=> ~Settled(i)
    /\ requestQueue # <<>> => InFlight = {requestQueue[1]}

\* C11 witness: one operation has settled with a failure and one with a
\* success, both have left the queue, and a third one is in flight.
C11_Witness ==
    \E i, j, k \in Invocations :
        /\ future[i].state = "rejected"
        /\ future[j].state = "resolved"
        /\ requestQueue = <<k>>
        /\ pc[k] \in InProgress

\* ---------------------------------------------------------------- the certificate

\* The operations of the handler whose call is in the log.
ACMCalled(op) == {k \in DOMAIN acm.calls : acm.calls[k].op = op}

\* The DNS validation options among the properties.
DNSOptionsOf(params) ==
    {e \in Get(params, "DomainValidationOptions").entries : "HostedZoneId" \in ObjectKeys(e[2])}

\* The report of invocation i, once its handler operation has settled.
ReportOf(i) == calls[i][1].body

\* A Create with more than one DNS validation option, or with a DNS validation
\* option for another domain than that of the resource.
CreateWithInvalidDNSOptions ==
    /\ acm.operation = "createResource"
    /\ \/ Cardinality(DNSOptionsOf(acm.params)) > 1
       \/ \E e \in DNSOptionsOf(acm.params) :
             Get(e[2], "DomainName") # Get(acm.params, "DomainName")

\* C12: a Create with more than one DNS validation option, or with one for
\* another domain than the resource's, makes no requestCertificate,
\* changeResourceRecordSets or waitFor call (no call at all), fails with
\* 'Invalid DNS domain validation options', and is reported as FAILED with that
\* message as reason.
C12_InvalidOptionsFail ==
    CreateWithInvalidDNSOptions =>
        /\ acm.calls = <<>>
        /\ acm.pc = "settled"
        /\ acm.outcome.kind = "throw"
        /\ acm.outcome.message = "Invalid DNS domain validation options"
        /\ \A i \in HandlerSettled :
              /\ calls[i][1].op = "send"
              /\ ReportOf(i).Status = "FAILED"
              /\ ReportOf(i).Reason = "Invalid DNS domain validation options"

\* C12 witness: a Create for a.example with one DNS validation option for
\* b.example has been reported.
C12_Witness ==
    /\ CreateWithInvalidDNSOptions
    /\ Cardinality(DNSOptionsOf(acm.params)) = 1
    /\ 1 \in HandlerSettled
    /\ pc[1] = "returned"
    /\ ReportOf(1).Status = "FAILED"

\* The place of a call in the order of createCertificate.
CallRank(op) ==
    CASE op = "requestCertificate" -> 1
      [] op = "describeCertificate" -> 2
      [] op = "changeResourceRecordSets" -> 3
      [] op = "waitFor" -> 4
      [] OTHER -> 0

\* The DNS validation options the certificate service holds for the certificate.
DNSValidations(certificate) ==
    {k \in DOMAIN certificate.DomainValidationOptions :
        certificate.DomainValidationOptions[k].ValidationMethod = "DNS"}
WithRecord(certificate) ==
    {k \in DNSValidations(certificate) :
        certificate.DomainValidationOptions[k].ResourceRecord # NoRecord}

\* A Create with one DNS validation option, for the domain of the resource.
CreateWithDNSOption ==
    /\ acm.operation = "createResource"
    /\ Cardinality(DNSOptionsOf(acm.params)) = 1
    /\ ~CreateWithInvalidDNSOptions

\* C13: in a Create with one DNS validation option the calls are, in this
\* order, requestCertificate (no DNS option among its DomainValidationOptions),
\* describeCertificate once or more, one changeResourceRecordSets and one
\* waitFor; each call is issued when the one before it has settled. When the
\* Create succeeds all four kinds have been made, every DNS validation option
\* of the certificate has its resource record, the change set holds one UPSERT
\* with TTL 300 per resource record, the wait has completed, and the physical
\* resource id returned and reported is '<id>/<certificate id>'.
C13_CreateOrder ==
    CreateWithDNSOption =>
        /\ \A k \in DOMAIN acm.calls :
              /\ CallRank(acm.calls[k].op) >= 1
              /\ k = 1 => acm.calls[k].op = "requestCertificate"
              /\ k > 1 =>
                    /\ CallRank(acm.calls[k - 1].op) <= CallRank(acm.calls[k].op)
                    /\ CallRank(acm.calls[k].op) - CallRank(acm.calls[k - 1].op) <= 1
                    /\ acm.calls[k].op # "describeCertificate" =>
                          acm.calls[k - 1].op # acm.calls[k].op
        /\ \A k \in ACMCalled("requestCertificate") :
              \A e \in acm.calls[k].Options.entries : "HostedZoneId" \notin ObjectKeys(e[2])
        /\ acm.outcome.kind = "response" =>
              /\ acm.pc = "settled"
              /\ acm.calls[Len(acm.calls)].op = "waitFor"
              /\ Cardinality(ACMCalled("waitFor")) = 1
              /\ Cardinality(ACMCalled("changeResourceRecordSets")) = 1
              /\ WithRecord(acm.certificate) = DNSValidations(acm.certificate)
              /\ \A k \in ACMCalled("changeResourceRecordSets") :
                    /\ Len(acm.calls[k].Changes) = Cardinality(DNSValidations(acm.certificate))
                    /\ \A c \in DOMAIN acm.calls[k].Changes :
                          /\ acm.calls[k].Changes[c].Action = "UPSERT"
                          /\ acm.calls[k].Changes[c].TTL = 300
                          /\ \E d \in DNSValidations(acm.certificate) :
                                LET record == acm.certificate.DomainValidationOptions[d].ResourceRecord
                                IN /\ acm.calls[k].Changes[c].Name = record.Name
                                   /\ acm.calls[k].Changes[c].Type = record.Type
                                   /\ acm.calls[k].Changes[c].Value = record.Value
              /\ acm.outcome.physicalResourceId =
                    acm.physicalResourceId \o <<acm.newArn[Len(acm.newArn)]>>
              /\ \A i \in HandlerSettled :
                    /\ ReportOf(i).Status = "SUCCESS"
                    /\ ReportOf(i).PhysicalResourceId = acm.outcome.physicalResourceId

\* C13 witness: a Create with an email and a DNS validation option has
\* succeeded after two polls and has been reported.
C13_Witness ==
    /\ CreateWithDNSOption
    /\ acm.outcome.kind = "response"
    /\ Cardinality(ACMCalled("describeCertificate")) = 2
    /\ acm.calls[1].Options # PUndefined
    /\ pc[1] = "returned"
    /\ ReportOf(1).Status = "SUCCESS"

\* The poll of getValidationResourceRecords is running.
Polling == acm.pc = "getValidationResourceRecords"

\* A tick of the poll: the certificate is described once more, and the
\* service answers.
Tick ==
    /\ Polling
    /\ Len(acm'.calls) > Len(acm.calls)
    /\ acm'.unhandledRejections = acm.unhandledRejections

\* Every DNS validation option the service reports has its resource record,
\* and there is at least one.
AllRecordsAttached ==
    /\ acm.certificate.present
    /\ DNSValidations(acm.certificate) # {}
    /\ WithRecord(acm.certificate) = DNSValidations(acm.certificate)

\* Resource records are missing from DNS validation options the service reports.
RecordsMissing ==
    /\ acm.certificate.present
    /\ DNSValidations(acm.certificate) # {}
    /\ WithRecord(acm.certificate) # DNSValidations(acm.certificate)

\* C14: a tick at which the service reports DNS validation options with fewer
\* resource records than options does not fail the operation and leaves the
\* poll running for the next tick; a tick at which every DNS validation option
\* has its resource record ends the poll with these records, which go into the
\* change set; and once the service has attached all records the poll ends.
C14_PollRetries ==
    /\ [][Tick =>
            /\ RecordsMissing =>
                  /\ acm'.pc = "getValidationResourceRecords"
                  /\ acm'.outcome.kind = "undefined"
                  /\ acm'.calls[Len(acm'.calls)].op = "describeCertificate"
            /\ AllRecordsAttached =>
                  /\ acm'.pc = "changeResourceRecordSets"
                  /\ acm'.outcome.kind = "undefined"
                  /\ Len(acm'.calls[Len(acm'.calls)].Changes) =
                        Cardinality(WithRecord(acm.certificate))]_vars
    /\ (Polling /\ AllRecordsAttached) ~> ~Polling

\* C14 witness: the poll has ended with two resource records, after two ticks
\* that found records missing.
C14_Witness ==
    /\ acm.pc = "changeResourceRecordSets"
    /\ acm.retries = 2
    /\ Cardinality(ACMCalled("describeCertificate")) = 3
    /\ Cardinality(WithRecord(acm.certificate)) = 2

\* The service reports the certificate without any DNS validation option.
NoDNSValidation ==
    /\ acm.certificate.present
    /\ DNSValidations(acm.certificate) = {}

\* The poll has ended with the error of a certificate without DNS validation option.
PollFailed ==
    /\ acm.outcome.kind = "throw"
    /\ acm.outcome.message = "Cannot find DNS domain validation option in certificate"

\* C15: a tick at which the service reports no DNS validation option at all
\* ends the poll with an error; after that error no changeResourceRecordSets
\* and no waitFor call is made, no further tick describes the certificate, and
\* the operation is reported as FAILED.
C15_NoOptionIsFatal ==
    /\ [][(Tick /\ NoDNSValidation) =>
            /\ acm'.pc = "settled"
            /\ acm'.outcome.kind = "throw"
            /\ acm'.outcome.message =
                  "Cannot find DNS domain validation option in certificate"]_vars
    /\ [](PollFailed =>
            /\ acm.pc = "settled"
            /\ acm.calls[Len(acm.calls)].op = "describeCertificate"
            /\ ACMCalled("changeResourceRecordSets") = {}
            /\ ACMCalled("waitFor") = {}
            /\ \A i \in HandlerSettled : ReportOf(i).Status = "FAILED")

\* C15 witness: a Create whose poll found records missing at the first tick
\* and no DNS validation option at the second one has been reported.
C15_Witness ==
    /\ acm.operation = "createResource"
    /\ PollFailed
    /\ Cardinality(ACMCalled("describeCertificate")) = 2
    /\ pc[1] = "returned"
    /\ ReportOf(1).Status = "FAILED"

PropertyNames ==
    {"DomainName", "CertificateTransparencyLoggingPreference", "DomainValidationOptions",
     "Tags"}

\* An Update whose previous and new property sets differ in this property only.
UpdateOf(name) ==
    /\ acm.operation = "updateResource"
    /\ Get(acm.params, name) # Get(acm.oldParams, name)
    /\ \A other \in PropertyNames \ {name} :
          Get(acm.params, other) = Get(acm.oldParams, other)

\* The handler operation has returned the physical resource id it was given.
ReturnedUnchangedId ==
    /\ acm.outcome.kind = "response"
    /\ acm.outcome.physicalResourceId = acm.physicalResourceId

\* C16: an Update whose property sets differ only in
\* CertificateTransparencyLoggingPreference requests no new certificate, and
\* when it succeeds it has called updateCertificateOptions on the existing
\* certificate and returns the physical resource id unchanged.
C16_PreferenceInPlace ==
    UpdateOf("CertificateTransparencyLoggingPreference") =>
        /\ ACMCalled("requestCertificate") = {}
        /\ acm.outcome.kind = "response" =>
              /\ ReturnedUnchangedId
              /\ \E k \in ACMCalled("updateCertificateOptions") :
                    acm.calls[k].CertificateArn = acm.certificateArn

\* C17: an Update whose property sets differ only in Tags, whatever the lengths
\* of the two tag lists, requests no new certificate, and when it succeeds it
\* has called addTagsToCertificate and then removeTagsFromCertificate on the
\* existing certificate and returns the physical resource id unchanged.
C17_TagsInPlace ==
    UpdateOf("Tags") =>
        /\ ACMCalled("requestCertificate") = {}
        /\ acm.outcome.kind = "response" =>
              /\ ReturnedUnchangedId
              /\ \E k \in ACMCalled("addTagsToCertificate") :
                    /\ acm.calls[k].CertificateArn = acm.certificateArn
                    /\ \E r \in ACMCalled("removeTagsFromCertificate") :
                          /\ r > k
                          /\ acm.calls[r].CertificateArn = acm.certificateArn

\* An Update in which DomainName differs from the previous property set.
DomainNameChanged ==
    /\ acm.operation = "updateResource"
    /\ Get(acm.params, "DomainName") # Get(acm.oldParams, "DomainName")

\* findCertificateArn has got every page of the listing.
Listed ==
    /\ acm.operation \in {"updateResource", "deleteResource"}
    /\ Cardinality(ACMCalled("listCertificates")) = Len(acm.pages)
    /\ acm.pc # "listCertificates"
    /\ ~(/\ acm.calls[Len(acm.calls)].op = "listCertificates"
         /\ acm.outcome.message = "service error")

\* The certificates of the listing.
AllListed == UNION {{acm.pages[p][k] : k \in DOMAIN acm.pages[p]} : p \in DOMAIN acm.pages}

\* The listing holds a certificate whose id ends the physical resource id, or
\* one for the domain of the (new) property set.
Located ==
    \E c \in AllListed :
        \/ /\ Len(acm.physicalResourceId) >= 2
           /\ acm.physicalResourceId[Len(acm.physicalResourceId)] =
                 c.CertificateArn[Len(c.CertificateArn)]
        \/ PString(c.DomainName) = Get(acm.params, "DomainName")

\* The DNS validation options of the property set are more than one, or for
\* another domain.
HasInvalidDNSOptions ==
    \/ Cardinality(DNSOptionsOf(acm.params)) > 1
    \/ \E e \in DNSOptionsOf(acm.params) :
          Get(e[2], "DomainName") # Get(acm.params, "DomainName")

\* The handler operation has returned a physical resource id that differs from
\* the one it was given and ends in the id of the certificate just requested.
ReturnedNewId ==
    /\ acm.newArn # NoArn
    /\ acm.outcome.physicalResourceId # acm.physicalResourceId
    /\ Len(acm.outcome.physicalResourceId) >= 2
    /\ acm.outcome.physicalResourceId[Len(acm.outcome.physicalResourceId)] =
          acm.newArn[Len(acm.newArn)]

\* C18 as stated: an Update in which DomainName differs always requests a new
\* certificate once the certificates are listed, deletes none, and when it
\* succeeds returns a physical resource id that differs from the old one and
\* ends in '/<new certificate id>'.
C18_Original ==
    DomainNameChanged =>
        /\ Listed => ACMCalled("requestCertificate") # {}
        /\ ACMCalled("deleteCertificate") = {}
        /\ acm.outcome.kind = "response" => ReturnedNewId

\* C18 as amended: an Update in which DomainName differs, alone or with other
\* changes, makes no updateCertificateOptions, tag or deleteCertificate call.
\* Once the certificates are listed: when none is located (by the id at the
\* end of the physical resource id, else by the new DomainName) it has failed
\* without requesting a certificate; when one is located and the DNS
\* validation options are valid it has requested a new certificate. When it
\* succeeds, the physical resource id returned differs from the old one and
\* ends in '/<new certificate id>'.
C18_Replacement ==
    DomainNameChanged =>
        /\ \A k \in DOMAIN acm.calls :
              acm.calls[k].op \notin
                  {"updateCertificateOptions", "listTagsForCertificate",
                   "addTagsToCertificate", "removeTagsFromCertificate",
                   "deleteCertificate"}
        /\ (Listed /\ ~Located) =>
              /\ acm.outcome.kind = "throw"
              /\ acm.outcome.message = "Cannot find certificate"
              /\ ACMCalled("requestCertificate") = {}
        /\ (Listed /\ Located /\ ~HasInvalidDNSOptions) =>
              ACMCalled("requestCertificate") # {}
        /\ acm.outcome.kind = "response" => ReturnedNewId

\* C18 witness: an Update that changes DomainName and Tags of 'res/c1' has
\* succeeded with a new physical resource id and has been reported.
C18_Witness ==
    /\ DomainNameChanged
    /\ Get(acm.params, "Tags") # Get(acm.oldParams, "Tags")
    /\ Get(acm.oldParams, "Tags") # PUndefined
    /\ acm.physicalResourceId = <<"res", "c1">>
    /\ acm.outcome.kind = "response"
    /\ ReturnedNewId
    /\ pc[1] = "returned"
    /\ ReportOf(1).PhysicalResourceId = acm.outcome.physicalResourceId

\* An Update that has replaced the certificate.
Replaced ==
    /\ acm.operation = "updateResource"
    /\ ACMCalled("requestCertificate") # {}
    /\ acm.outcome.kind = "response"

\* The old physical resource id ends in the id of the old certificate.
EndsInOldCertificateId ==
    /\ Len(acm.physicalResourceId) >= 2
    /\ acm.physicalResourceId[Len(acm.physicalResourceId)] =
          acm.certificateArn[Len(acm.certificateArn)]

\* C19: on replacement the new physical resource id is the part of the old id
\* before its last '/' followed by '/<new certificate id>' when the old id
\* ends in the old certificate's id, and the old id followed by
\* '/<new certificate id>' otherwise; without its last segment the new id is
\* that prefix.
C19_SuffixSwapped ==
    Replaced =>
        LET old == acm.physicalResourceId
            new == acm.outcome.physicalResourceId
            prefix == IF EndsInOldCertificateId THEN SubSeq(old, 1, Len(old) - 1) ELSE old
        IN /\ new = prefix \o <<acm.newArn[Len(acm.newArn)]>>
           /\ SubSeq(new, 1, Len(new) - 1) = prefix

\* The certificates of the listing whose id ends the physical resource id.
ListedById ==
    {c \in AllListed :
        /\ Len(acm.physicalResourceId) >= 2
        /\ acm.physicalResourceId[Len(acm.physicalResourceId)] =
              c.CertificateArn[Len(c.CertificateArn)]}

\* C20: a Delete calls nothing but listCertificates and deleteCertificate (no
\* changeResourceRecordSets, whatever validation options the resource has);
\* deleteCertificate is called once at most, for a listed certificate whose id
\* ends the physical resource id or, when there is none, one of the domain of
\* the resource; when no such certificate is listed the Delete fails without
\* calling deleteCertificate; when it succeeds the certificate has been deleted.
C20_DeleteLeavesDNS ==
    acm.operation = "deleteResource" =>
        /\ \A k \in DOMAIN acm.calls :
              acm.calls[k].op \in {"listCertificates", "deleteCertificate"}
        /\ Cardinality(ACMCalled("deleteCertificate")) <= 1
        /\ \A k \in ACMCalled("deleteCertificate") :
              \E c \in AllListed :
                  /\ c.CertificateArn = acm.calls[k].CertificateArn
                  /\ IF ListedById # {} THEN c \in ListedById
                     ELSE PString(c.DomainName) = Get(acm.params, "DomainName")
        /\ (Listed /\ ~Located) =>
              /\ acm.outcome.kind = "throw"
              /\ ACMCalled("deleteCertificate") = {}
        /\ acm.outcome.kind = "response" => ACMCalled("deleteCertificate") # {}

\* C20 witness: the Delete of a resource with a DNS validation option has
\* deleted the certificate found on the second page and has been reported.
C20_Witness ==
    /\ acm.operation = "deleteResource"
    /\ DNSOptionsOf(acm.params) # {}
    /\ Cardinality(ACMCalled("listCertificates")) = 2
    /\ ACMCalled("deleteCertificate") # {}
    /\ acm.outcome.kind = "response"
    /\ pc[1] = "returned"
    /\ ReportOf(1).Status = "SUCCESS"

\* The elements of a list, and those of one list that have no element of
\* another with the same key and the same value.
Elements(list) == {list[k] : k \in DOMAIN list}
WithoutEqual(tagSet, others) ==
    {t \in tagSet :
        ~\E o \in others :
            /\ Get(o, "Key") = Get(t, "Key")
            /\ Get(o, "Value") = Get(t, "Value")}

\* The tags of the request of a Tags-only update.
TargetTags == Elements(ItemsOrEmpty(Get(acm.params, "Tags")))

\* C21: in the Tags-only update the tags added are, as a set, the tags of the
\* request that have no existing tag of equal key and value, and the tags
\* removed are the existing tags that have no tag of the request of equal key
\* and value: both depend on the two lists as sets only, not on their order
\* (existing {A:1, B:2} and target {B:2, C:3} give add {C:3}, remove {A:1}).
C21_TagDifference ==
    /\ \A k \in ACMCalled("addTagsToCertificate") :
          Elements(acm.calls[k].Tags) =
              WithoutEqual(TargetTags, Elements(acm.existingTags))
    /\ \A k \in ACMCalled("removeTagsFromCertificate") :
          Elements(acm.calls[k].Tags) =
              WithoutEqual(Elements(acm.existingTags), TargetTags)

\* C21 witness: with the existing tags listed as B:2, A:1 and the tags of the
\* request as C:3, B:2, C:3 has been added and A:1 is being removed.
C21_Witness ==
    /\ acm.existingTags = <<Tag("B", "2"), Tag("A", "1")>>
    /\ Get(acm.params, "Tags") = PArray(<<Tag("C", "3"), Tag("B", "2")>>)
    /\ \E k \in ACMCalled("addTagsToCertificate") : acm.calls[k].Tags = <<Tag("C", "3")>>
    /\ \E k \in ACMCalled("removeTagsFromCertificate") : acm.calls[k].Tags = <<Tag("A", "1")>>


\* The invocations whose teardown has failed: the last call of processRequest
\* is a removeTargets or a deleteRule that was rejected.
TeardownFailed ==
    {i \in Live : /\ calls[i] # <<>>
                  /\ Last(calls[i]).op \in {"removeTargets", "deleteRule"}
                  /\ Last(calls[i]).result = Failed}

\* C22: a failure of removeTargets or of deleteRule during the teardown is only
\* logged: the callback already made and the status are left as they are,
\* processRequest returns normally, and the future of handleRequest resolves
\* to the status that was reported instead of rejecting.
C22_TeardownFailureLogged ==
    /\ [](\A i \in TeardownFailed :
             /\ pc[i] = "returned"
             /\ error[i] = NoError
             /\ calls[i][1].op = "send"
             /\ calls[i][1].body.Status = status[i])
    /\ [][\A i \in Live :
             /\ (i \notin TeardownFailed /\ i \in TeardownFailed') =>
                    /\ status'[i] = status[i]
                    /\ calls'[i][1] = calls[i][1]
                    /\ future'[i] = Pending
             /\ (i \in TeardownFailed /\ future'[i] # future[i]) =>
                    future'[i] = Resolved(calls[i][1].body.Status)]_vars

\* C22 witness: removeTargets succeeded and deleteRule failed after FAILED was
\* reported, and processRequest has returned.
C22_Witness ==
    \E i \in TeardownFailed :
        /\ Last(calls[i]).op = "deleteRule"
        /\ calls[i][1].body.Status = "FAILED"
        /\ pc[i] = "returned"


\* An error was raised in the invocation of the certificate handler: the
\* handler operation threw, or a describeCertificate of a poll tick was rejected.
ErrorRaised == acm.outcome.kind = "throw" \/ acm.unhandledRejections > 0

\* C23: no failure of an external call escapes uncaught: every error raised by
\* the handler operation, by a describeCertificate call inside a poll tick or
\* by the callback delivery ends as a reported FAILED status or as the
\* rejection of the future of the invocation, and nothing is thrown outside it.
C23_NoErrorEscapes ==
    /\ acm.pc # "exited"
    /\ \A i \in HandlerSettled :
          /\ ErrorRaised => ReportOf(i).Status = "FAILED"
          /\ (calls[i][1].result # Awaited /\ sendError(calls[i][1].result) # NoError) =>
                 pc[i] = "thrown" /\ error[i] = sendError(calls[i][1].result)


\* The body send is called to deliver for invocation i.
BodyToSend(i) ==
    responseBody(request[i], status[i], statusReason[i],
                 IF response[i].physicalResourceId # <<>>
                 THEN response[i].physicalResourceId
                 ELSE physicalResourceIdOf(request[i]),
                 responseData(response[i].attributesLength))

\* C24: send issues the PUT for every call whatever the length of the
\* serialised body: the whole body goes out with its length as content-length,
\* a body of 4096 characters or more is warned about and no other, and how the
\* PUT ends decides alone whether send resolves or rejects.
C24_OversizeIsSent ==
    /\ [](\A i \in HandlerSettled :
             /\ calls[i][1].op = "send"
             /\ calls[i][1].body = BodyToSend(i)
             /\ calls[i][1].contentLength = bodyLength(BodyToSend(i))
             /\ calls[i][1].warned <=> bodyLength(BodyToSend(i)) >= BODY_LIMIT)
    /\ [][\A i \in Live :
             (pc[i] = "sendResponse" /\ pc'[i] # pc[i]) =>
                 /\ calls'[i][1] = [calls[i][1] EXCEPT !.result = calls'[i][1].result]
                 /\ pc'[i] = IF sendError(calls'[i][1].result) # NoError
                             THEN "thrown" ELSE "returned"]_vars

\* C24 witness: a body of exactly 4096 characters was warned about and
\* delivered, and processRequest has returned.
C24_Witness ==
    \E i \in HandlerSettled :
        /\ calls[i][1].contentLength = BODY_LIMIT
        /\ calls[i][1].warned
        /\ calls[i][1].result = [kind |-> "response", statusCode |-> 200]
        /\ pc[i] = "returned"


\* Request i has been submitted; it has been started; its future has settled
\* and it is off the queue.
Submitted(i) == i \in Invocations
Started(i) == i \in Invocations /\ pc[i] # "queued"
Finished(i) == i \in Invocations /\ pc[i] = "done" /\ Settled(i)

\* C25: with every processRequest execution terminating, every request
\* submitted through handleRequest is eventually started and its future
\* eventually settles, whenever and however many requests are submitted.
C25_NoStarvation ==
    \A i \in 1..MaxRequests :
        /\ Submitted(i) ~> Started(i)
        /\ Submitted(i) ~> Finished(i)

\* C25 witness: the last of the requests the instance takes has waited in the
\* queue behind two others and has settled.
C25_Witness ==
    /\ Len(request) = MaxRequests
    /\ \A i \in Invocations : Finished(i)


\* The top-level properties whose values differ structurally between two
\* property sets; a property that only one of them has differs.
DifferingProperties(params, oldParams) ==
    {key \in ObjectKeys(params) \cup ObjectKeys(oldParams) :
        Get(params, key) # Get(oldParams, key)}

\* C26: findChangedAttributes returns exactly the top-level properties whose
\* values differ structurally between the new and the previous property set:
\* a property that only one set has, and arrays of different length or with a
\* differing element, count as changed; structurally equal values never do.
C26_ChangedExactly ==
    acm.operation = "updateResource" =>
        findChangedAttributes(acm.params, acm.oldParams) =
            DifferingProperties(acm.params, acm.oldParams)


\* The complete listing: the certificates of all pages, in the order listed.
CompleteListing ==
    LET RECURSIVE upTo(_)
        upTo(p) == IF p = 0 THEN <<>> ELSE upTo(p - 1) \o acm.pages[p]
    IN upTo(Len(acm.pages))

\* The places in the complete listing of the certificates for the domain of
\* the property set.
ListedForDomain ==
    {k \in DOMAIN CompleteListing :
        PString(CompleteListing[k].DomainName) = Get(acm.params, "DomainName")}

\* C27: once all pages are listed, findCertificateArn has returned a
\* certificate whose id ends the physical resource id whenever the complete
\* listing holds one, whatever its domain name; only without one the first
\* listed certificate of the given domain; and nothing when there is neither.
C27_LookupByIdThenDomain ==
    Listed =>
        IF ListedById # {}
        THEN \E c \in ListedById : acm.certificateArn = c.CertificateArn
        ELSE IF ListedForDomain # {}
        THEN \E k \in ListedForDomain :
                /\ \A other \in ListedForDomain : k <= other
                /\ acm.certificateArn = CompleteListing[k].CertificateArn
        ELSE acm.certificateArn = NoArn

\* C27 witness: the certificate with the id of the resource was found on the
\* second page, of another domain than the one asked for, behind a certificate
\* of that domain.
C27_Witness ==
    /\ Listed
    /\ acm.certificateArn = Arn("c1")
    /\ acm.pages = << <<CertificateSummary("c2", "b.example")>>,
                      <<CertificateSummary("c1", "a.example")>> >>
    /\ Get(acm.params, "DomainName") = PString("b.example")


\* The future of invocation i resolves in this step.
Resolves(i) == future[i].state = "pending" /\ future'[i].state = "resolved"

\* The status callback of invocation i was delivered with the given status.
Reported(i, stat) ==
    \E k \in CallsOf(calls[i], "send") :
        /\ calls[i][k].body.Status = stat
        /\ sendError(calls[i][k].result) = NoError

\* C28 as stated: the future of handleRequest resolves to a status only if
\* that status was reported through the callback in the same invocation.
C28_Original ==
    [][\A i \in Live : Resolves(i) => Reported(i, future'[i].status)]_vars

\* C28 as amended: the future resolves to a status only if that status was
\* reported through the callback in the same invocation and the delivery
\* succeeded, or if the handler operation asked for a continuation and the
\* continuation was scheduled: then it resolves to SUCCESS with nothing
\* reported.
C28_ResolvesAsReported ==
    [][\A i \in Live :
          Resolves(i) =>
              IF response[i].kind = "continuation"
              THEN /\ future'[i].status = "SUCCESS"
                   /\ CallsOf(calls[i], "send") = {}
                   /\ Last(calls[i]).op = "putRule"
                   /\ Last(calls[i]).State = "ENABLED"
                   /\ Last(calls[i]).result = Succeeded
              ELSE Reported(i, future'[i].status)]_vars

\* C28 witness: the future of the only request has resolved to SUCCESS with
\* the rule of its continuation enabled and not yet fired.
C28_Witness ==
    /\ Len(request) = 1
    /\ future[1] = Resolved("SUCCESS")
    /\ \E name \in DOMAIN rules : rules[name].State = "ENABLED" /\ ~rules[name].fired

====
